---- MODULE Spec2Model ----
(***************************************************************************)
(* Call Performance Dashboard: the data loader (js/data-loader.js), the    *)
(* helpers it uses (js/utils.js, js/config.js) and the Dashboard           *)
(* controller (js/main.js), as a state machine.                            *)
(*                                                                         *)
(* Conventions.                                                            *)
(*  - A JavaScript string is a TLA+ string; characters are taken with      *)
(*    Head/Tail/SubSeq.                                                    *)
(*  - A value that may be null/undefined is a sequence of length 0 or 1:   *)
(*    <<>> is null/undefined, <<v>> is the value v.                        *)
(*  - A number produced by cleanNumber is kept in hundredths (1.5 is 150), *)
(*    so two fraction digits are exact.                                    *)
(*  - A Date is its time value in seconds since 1970-01-01T00:00:00Z.      *)
(*  - A JavaScript object is a function from its own property names.       *)
(***************************************************************************)
EXTENDS Integers, Sequences, FiniteSets, TLC

VARIABLES
    data,        \* DataLoader.data: own keys -> array of processed records
    metadata,    \* DataLoader.metadata: own keys -> metadata object
    isLoading,   \* DataLoader.isLoading
    results,     \* the tasks of the latest loadAll: key -> <<>> or <<result>>
    loadOwner,   \* the caller awaiting the loadAll in flight
    single,      \* the keys with a DataLoader.refresh(key) in flight
    refreshCalls,\* number of DataLoader.refresh(key) calls made so far
    initState,   \* Dashboard.init: "new", "started", "done"
    last,        \* the operation that the latest step ran or completed
    query,       \* the getData call whose result a caller holds: <<>> or
                 \* <<[key, filters, before]>>, before the stores at the call
    returned,    \* what that getData call returned or threw
    mutations,   \* number of in-place changes callers made to returned arrays
    dateFrom,    \* value of the #date-from input
    dateTo,      \* value of the #date-to input
    currentFilters, \* Dashboard.currentFilters
    storage,     \* localStorage['dashboard_filters']: <<>> or <<filters>>
    errorShown,  \* the error container is visible
    rendered,    \* the filters of the latest page render: <<>> or <<filters>>
    timers,      \* pending timeouts of debouncedRender: ms until each is due
    sinceTrigger,\* ms since the latest debouncedRender() call (saturating)
    burst,       \* the current burst of triggers: its triggers and renders
    closed,      \* the burst before the current one, as it ended
    currentPage, \* Dashboard.currentPage
    shown,       \* the charts on display: <<>> for none, or <<[page, data]>>,
                 \* the page rendered and the stores it was rendered from
    navigating,  \* a navigateToPage awaits its animation frame
    charts,      \* ChartManager.charts: container id -> Chart instance
    liveCharts   \* the Chart instances created and not destroyed, each
                 \* <<container id, instance>>

loaderCtl == <<isLoading, results, loadOwner, single, refreshCalls, initState>>
queryVars == <<query, returned, mutations>>
filterVars == <<dateFrom, dateTo, currentFilters, storage>>
debounceVars == <<timers, sinceTrigger, burst, closed>>
viewVars == <<currentPage, shown, navigating, charts, liveCharts>>
vars == <<data, metadata, loaderCtl, last, queryVars, filterVars, errorShown,
          rendered, debounceVars, viewVars>>

(***************************************************************************)
(* Strings                                                                 *)
(***************************************************************************)
Digits == {"0", "1", "2", "3", "4", "5", "6", "7", "8", "9"}

DigitVal(c) ==
    CASE c = "0" -> 0 [] c = "1" -> 1 [] c = "2" -> 2 [] c = "3" -> 3
      [] c = "4" -> 4 [] c = "5" -> 5 [] c = "6" -> 6 [] c = "7" -> 7
      [] c = "8" -> 8 [] c = "9" -> 9

Ch(s, i) == SubSeq(s, i, i)

AllDigits(s) == \A i \in 1..Len(s) : Ch(s, i) \in Digits

\* the element of a set of one element: Only({f(x) : x \in {e}}) is f(e)
\* with e evaluated once
Only(S) == CHOOSE x \in S : TRUE

ToInt(s) ==
    LET F[i \in 0..Len(s)] ==
            IF i = 0 THEN 0
            ELSE 10 * F[i - 1] + Only({DigitVal(c) : c \in {Ch(s, i)}})
    IN  F[Len(s)]

RECURSIVE Trim(_)
Trim(s) ==
    IF s = "" THEN ""
    ELSE IF Head(s) = " " THEN Trim(Tail(s))
    ELSE IF Ch(s, Len(s)) = " " THEN Trim(SubSeq(s, 1, Len(s) - 1))
    ELSE s

LowerOf(c) ==
    CASE c = "A" -> "a" [] c = "B" -> "b" [] c = "C" -> "c" [] c = "D" -> "d"
      [] c = "E" -> "e" [] c = "F" -> "f" [] c = "G" -> "g" [] c = "H" -> "h"
      [] c = "I" -> "i" [] c = "J" -> "j" [] c = "K" -> "k" [] c = "L" -> "l"
      [] c = "M" -> "m" [] c = "N" -> "n" [] c = "O" -> "o" [] c = "P" -> "p"
      [] c = "Q" -> "q" [] c = "R" -> "r" [] c = "S" -> "s" [] c = "T" -> "t"
      [] c = "U" -> "u" [] c = "V" -> "v" [] c = "W" -> "w" [] c = "X" -> "x"
      [] c = "Y" -> "y" [] c = "Z" -> "z" [] OTHER -> c

RECURSIVE ToLowerCase(_)
ToLowerCase(s) ==
    IF s = "" THEN "" ELSE LowerOf(Head(s)) \o ToLowerCase(Tail(s))

\* s.includes(q)
Includes(s, q) ==
    \E i \in 1..(Len(s) + 1) :
        i + Len(q) - 1 <= Len(s) /\ SubSeq(s, i, i + Len(q) - 1) = q

\* position of the first occurrence of the character c in s, 0 when absent
IndexOf(s, c) ==
    IF \E i \in 1..Len(s) : Ch(s, i) = c
    THEN CHOOSE i \in 1..Len(s) :
             Ch(s, i) = c /\ \A j \in 1..(i - 1) : Ch(s, j) # c
    ELSE 0

(***************************************************************************)
(* utils.js: cleanNumber                                                   *)
(***************************************************************************)
NumChars == Digits \cup {"-", "+", ",", ".", "(", ")"}

\* s.replace(/[^\d\-+,.()]/g, '')
RECURSIVE KeepNumChars(_)
KeepNumChars(s) ==
    IF s = "" THEN ""
    ELSE (IF Head(s) \in NumChars THEN Head(s) ELSE "") \o KeepNumChars(Tail(s))

\* /^\d{1,3}(\.\d{3})+$/ on the part before the decimal comma
EuroGrouped(t) ==
    \E lead \in 1..3 :
        /\ Len(t) >= lead + 4
        /\ (Len(t) - lead) % 4 = 0
        /\ AllDigits(SubSeq(t, 1, lead))
        /\ \A g \in 0..((Len(t) - lead) \div 4 - 1) :
              /\ Ch(t, lead + 4 * g + 1) = "."
              /\ AllDigits(SubSeq(t, lead + 4 * g + 2, lead + 4 * g + 4))

\* /^\d{1,3}(\.\d{3})+,\d{1,2}$/
IsEuropean(s) ==
    LET p == IndexOf(s, ",") IN
    /\ p > 0
    /\ EuroGrouped(SubSeq(s, 1, p - 1))
    /\ Len(s) - p \in 1..2
    /\ AllDigits(SubSeq(s, p + 1, Len(s)))

RECURSIVE RemoveChar(_, _)
RemoveChar(s, c) ==
    IF s = "" THEN ""
    ELSE (IF Head(s) = c THEN "" ELSE Head(s)) \o RemoveChar(Tail(s), c)

\* s.replace(/\./g,'').replace(',', '.')
EuropeanToPlain(s) ==
    LET t == RemoveChar(s, ".")
        p == IndexOf(t, ",")
    IN  SubSeq(t, 1, p - 1) \o "." \o SubSeq(t, p + 1, Len(t))

\* s.replace(/,(?=\d{3}(?:\.|$))/g, ''): the lookahead reads the original s
RECURSIVE StripThousands(_, _)
StripThousands(s, i) ==
    IF i > Len(s) THEN ""
    ELSE LET grouped == /\ Ch(s, i) = ","
                        /\ i + 3 <= Len(s)
                        /\ AllDigits(SubSeq(s, i + 1, i + 3))
                        /\ (i + 3 = Len(s) \/ Ch(s, i + 4) = ".")
         IN  (IF grouped THEN "" ELSE Ch(s, i)) \o StripThousands(s, i + 1)

\* the longest prefix of s made of digits
RECURSIVE DigitPrefix(_)
DigitPrefix(s) ==
    IF s = "" \/ Head(s) \notin Digits THEN ""
    ELSE Head(s) \o DigitPrefix(Tail(s))

\* parseFloat(s) in hundredths; <<>> is NaN. s holds only NumChars, so no
\* exponent and no "Infinity" can occur.
parseFloat(s) ==
    LET signed == s # "" /\ Head(s) \in {"-", "+"}
        body   == IF signed THEN Tail(s) ELSE s
        ip     == DigitPrefix(body)
        rest   == SubSeq(body, Len(ip) + 1, Len(body))
        fp     == IF rest # "" /\ Head(rest) = "." THEN DigitPrefix(Tail(rest))
                  ELSE ""
        f2     == SubSeq(fp \o "00", 1, 2)
        mag    == ToInt(ip) * 100 + ToInt(f2)
    IN  IF ip = "" /\ fp = "" THEN <<>>
        ELSE IF signed /\ Head(s) = "-" THEN <<0 - mag>> ELSE <<mag>>

RECURSIVE cleanNumberStr(_)
cleanNumberStr(str) ==
    LET s == KeepNumChars(Trim(str)) IN
    IF str = "" \/ s = "" THEN 0
    ELSE IF Len(s) >= 2 /\ Head(s) = "(" /\ Ch(s, Len(s)) = ")"
         THEN 0 - cleanNumberStr(SubSeq(s, 2, Len(s) - 1))
    ELSE Only({IF n = <<>> THEN 0 ELSE n[1] :
                  n \in {parseFloat(IF IsEuropean(s) THEN EuropeanToPlain(s)
                                    ELSE StripThousands(s, 1))}})

\* cleanNumber(v), v possibly null/undefined
cleanNumber(v) == IF v = <<>> THEN 0 ELSE cleanNumberStr(v[1])

(***************************************************************************)
(* Date: time values in seconds; local time is UTC + TimezoneOffset, and    *)
(* one hour more while summer time is in force                             *)
(***************************************************************************)
\* the environment's offset of local time from UTC outside summer time, in
\* seconds (UTC+01:00)
TimezoneOffset == 60 * 60

\* days from 1970-01-01 to the civil date y-m-d (m in 1..12, any integer d)
DaysFromCivil(y, m, d) ==
    LET yy  == IF m <= 2 THEN y - 1 ELSE y
        era == yy \div 400
        yoe == yy - era * 400
        mp  == IF m > 2 THEN m - 3 ELSE m + 9
        doy == (153 * mp + 2) \div 5 + d - 1
        doe == yoe * 365 + yoe \div 4 - yoe \div 100 + doy
    IN  era * 146097 + doe - 719468

IsLeap(y) == (y % 4 = 0 /\ y % 100 # 0) \/ y % 400 = 0

DaysInMonth(y, m) ==
    IF m = 2 THEN (IF IsLeap(y) THEN 29 ELSE 28)
    ELSE IF m \in {4, 6, 9, 11} THEN 30 ELSE 31

\* d.toISOString().split('T')[0], as the day number of the UTC date
ISODay(t) == t \div 86400

\* the civil date <<y, m, d>> of the day number z (days from 1970-01-01)
CivilFromDays(z) ==
    LET zz  == z + 719468
        era == zz \div 146097
        doe == zz - era * 146097
        yoe == (doe - doe \div 1460 + doe \div 36524 - doe \div 146096) \div 365
        doy == doe - (365 * yoe + yoe \div 4 - yoe \div 100)
        mp  == (5 * doy + 2) \div 153
        d   == doy - (153 * mp + 2) \div 5 + 1
        m   == IF mp < 10 THEN mp + 3 ELSE mp - 9
    IN  <<yoe + era * 400 + (IF m <= 2 THEN 1 ELSE 0), m, d>>

\* the day number of the last Sunday of month m of year y (day 0 was a
\* Thursday)
LastSunday(y, m) ==
    LET z == DaysFromCivil(y, m, DaysInMonth(y, m))
    IN  z - ((z + 4) % 7)

\* summer time is in force at the time value t: from 01:00 UTC on the last
\* Sunday of March to 01:00 UTC on the last Sunday of October, in the years
\* from 1996 on
InSummerTime(t) ==
    Only({/\ u >= DaysFromCivil(1996, 1, 1) * 86400
          /\ u >= LastSunday(y, 3) * 86400 + 3600
          /\ u < LastSunday(y, 10) * 86400 + 3600 :
              u \in {t}, y \in {CivilFromDays(ISODay(t))[1]}})

\* the offset of local time from UTC at the time value t
LocalOffset(t) == TimezoneOffset + (IF InSummerTime(t) THEN 3600 ELSE 0)

\* the time value of the local time that reads `loc` seconds from
\* 1970-01-01T00:00:00: summer time where it is in force at that reading
FromLocal(loc) ==
    Only({IF InSummerTime(l - TimezoneOffset - 3600)
          THEN l - TimezoneOffset - 3600
          ELSE l - TimezoneOffset : l \in {loc}})

\* new Date(year, monthIndex, day, h, mi, s): local time, with the month and
\* day overflow of MakeDay (month 12 is January of the next year, day 0 is
\* the last day of the month before)
NewDate(y, mon0, d, h, mi, s) ==
    FromLocal(DaysFromCivil(y + mon0 \div 12, (mon0 % 12) + 1, d) * 86400
                  + h * 3600 + mi * 60 + s)

\* Date.prototype.setHours(23, 59, 59, 999) on the time value t: the end of
\* the local day that holds t (milliseconds dropped)
EndOfLocalDay(t) ==
    Only({FromLocal(((u + LocalOffset(u)) \div 86400) * 86400 + 86399) :
             u \in {t}})

\* date.setDate(date.getDate() + n) on the time value t: the same local
\* time of day, n local days on
setDateBy(t, n) ==
    Only({FromLocal(u + LocalOffset(u) + n * 86400) : u \in {t}})

\* the decimal digits of n, zero-padded to width w
RECURSIVE Pad(_, _)
Pad(n, w) ==
    IF w = 0 THEN ""
    ELSE Pad(n \div 10, w - 1) \o SubSeq("0123456789", (n % 10) + 1, (n % 10) + 1)

\* d.toISOString().split('T')[0] as text: the UTC date, yyyy-mm-dd
toISODateString(t) ==
    LET c == CivilFromDays(ISODay(t))
    IN  Pad(c[1], 4) \o "-" \o Pad(c[2], 2) \o "-" \o Pad(c[3], 2)

\* formatDate(date, 'input') on a valid Date
formatDateInput(t) == toISODateString(t)

(***************************************************************************)
(* utils.js: parseDate                                                     *)
(***************************************************************************)
\* /^\d+(\.\d+)?$/
IsPlainNumber(s) ==
    LET ip == DigitPrefix(s)
        rest == SubSeq(s, Len(ip) + 1, Len(s))
    IN  /\ ip # ""
        /\ \/ rest = ""
           \/ /\ Len(rest) >= 2
              /\ Head(rest) = "."
              /\ AllDigits(Tail(rest))

\* the optional time of day (?:[ T](\d{1,2}):(\d{2})(?::(\d{2}))?)?$ :
\* <<>> when t does not match, else <<hours, minutes, seconds>> in a 1-tuple
TimeOfDay(t) ==
    IF t = "" THEN << <<0, 0, 0>> >>
    ELSE IF Head(t) \notin {" ", "T"} THEN <<>>
    ELSE LET u   == Tail(t)
             hh  == DigitPrefix(SubSeq(u, 1, 2))
             hok == hh # "" /\ Len(u) >= Len(hh) + 3 /\ Ch(u, Len(hh) + 1) = ":"
             v   == SubSeq(u, Len(hh) + 2, Len(u))
             mm  == SubSeq(v, 1, 2)
             w   == SubSeq(v, 3, Len(v))
         IN  IF ~hok \/ ~AllDigits(mm) THEN <<>>
             ELSE IF w = "" THEN << <<ToInt(hh), ToInt(mm), 0>> >>
             ELSE IF Len(w) = 3 /\ Head(w) = ":" /\ AllDigits(Tail(w))
                  THEN << <<ToInt(hh), ToInt(mm), ToInt(Tail(w))>> >>
             ELSE <<>>

\* s.match(/^(\d{1,2})SEP(\d{1,2})SEP(\d{2,4})(?:[ T]...)?$/) followed by
\* new Date(yy, MM-1, dd, hh, mi, ss): the first number is the day, the
\* second the month. <<>> when the pattern does not match.
DayMonthYear(s, sep) ==
    LET a  == DigitPrefix(s)
        r1 == SubSeq(s, Len(a) + 2, Len(s))
        b  == DigitPrefix(r1)
        r2 == SubSeq(r1, Len(b) + 2, Len(r1))
        y  == DigitPrefix(r2)
        tl == SubSeq(r2, Len(y) + 1, Len(r2))
        ok == /\ Len(a) \in 1..2 /\ Len(s) > Len(a) /\ Ch(s, Len(a) + 1) = sep
              /\ Len(b) \in 1..2 /\ Len(r1) > Len(b) /\ Ch(r1, Len(b) + 1) = sep
              /\ Len(y) \in 2..4
              /\ TimeOfDay(tl) # <<>>
    IN  IF ok
        THEN Only({<<NewDate(IF yy < 100 THEN 2000 + yy ELSE yy,
                             ToInt(b) - 1, ToInt(a), td[1], td[2], td[3])>> :
                      yy \in {ToInt(y)}, td \in {TimeOfDay(tl)[1]}})
        ELSE <<>>

\* /^\d{4}-\d{2}-\d{2}/
IsISOPrefix(s) ==
    /\ Len(s) >= 10
    /\ AllDigits(SubSeq(s, 1, 4)) /\ Ch(s, 5) = "-"
    /\ AllDigits(SubSeq(s, 6, 7)) /\ Ch(s, 8) = "-"
    /\ AllDigits(SubSeq(s, 9, 10))

\* new Date(s.replace(' ', 'T')) for s with an ISO prefix: the date-only form
\* is UTC, the form with a time of day is local time; anything else, and a
\* month or day that does not exist, is an invalid date
ISODateOf(y, m, d, tl) ==
    IF m \notin 1..12 \/ d \notin 1..DaysInMonth(y, m) THEN <<>>
    ELSE IF tl = "" THEN <<DaysFromCivil(y, m, d) * 86400>>
    ELSE Only({IF td = <<>> \/ Len(DigitPrefix(SubSeq(tl, 2, Len(tl)))) # 2
                  \/ td[1][1] > 23 \/ td[1][2] > 59 \/ td[1][3] > 59 THEN <<>>
               ELSE <<NewDate(y, m - 1, d, td[1][1], td[1][2], td[1][3])>> :
                  td \in {TimeOfDay(tl)}})

ISODate(s) ==
    Only({ISODateOf(y, m, d, tl) :
            y \in {ToInt(SubSeq(s, 1, 4))}, m \in {ToInt(SubSeq(s, 6, 7))},
            d \in {ToInt(SubSeq(s, 9, 10))}, tl \in {SubSeq(s, 11, Len(s))}})

\* Excel serial: days since 1899-12-30 local, the fraction is the time of day
ExcelSerial(s) ==
    Only({NewDate(1899, 11, 30 + num \div 100, 0, 0, 0) + (num % 100) * 864 :
             num \in {parseFloat(s)[1]}})

\* the last resort new Date(s): text that is no date in any engine
DateFallback(s) == <<>>

\* parseDate(value), value possibly null: <<>> is null, <<t>> a valid Date
IsSerialNumber(num) == num > 20000 * 100 /\ num < 60000 * 100

parseDateText(s) ==
    IF IsPlainNumber(s) /\ IsSerialNumber(parseFloat(s)[1])
    THEN <<ExcelSerial(s)>>
    ELSE IF IsISOPrefix(s) THEN ISODate(s)
    ELSE Only({IF slashed # <<>> THEN slashed
               ELSE Only({IF dashed # <<>> THEN dashed ELSE DateFallback(s) :
                             dashed \in {DayMonthYear(s, "-")}}) :
                  slashed \in {DayMonthYear(s, "/")}})

parseDate(value) ==
    IF value = <<>> \/ value[1] = "" THEN <<>>
    ELSE Only({parseDateText(s) : s \in {Trim(value[1])}})

(***************************************************************************)
(* config.js                                                               *)
(***************************************************************************)
\* Object.keys(CONFIG.dataSources), in declaration order
DataSourceKeys == <<"inbound", "outbound", "outbound_connectrate", "fcr">>

SourceSet == {DataSourceKeys[i] : i \in 1..Len(DataSourceKeys)}

\* CONFIG.fieldMappings, <<>> for a missing entry
fieldMappings(ds, fieldType) ==
    CASE ds = "inbound" ->
           (CASE fieldType = "date" -> <<"Date/Time">>
              [] fieldType = "agent" -> <<"Agent Name">>
              [] fieldType = "status" -> <<"Disposition">>
              [] fieldType = "duration" -> <<"Talk Time">>
              [] fieldType = "waitTime" -> <<"Wait Time">>
              [] fieldType = "count" -> <<"Call ID">>
              [] OTHER -> <<>>)
      [] ds = "outbound" ->
           (CASE fieldType = "date" -> <<"Date">>
              [] fieldType = "agent" -> <<"Agent">>
              [] fieldType = "status" ->
                   <<"Answered Calls", "Missed Calls", "Voicemail Calls">>
              [] fieldType = "duration" -> <<"Total Call Duration">>
              [] fieldType = "count" -> <<"Total Calls">>
              [] OTHER -> <<>>)
      [] ds = "outbound_connectrate" ->
           (CASE fieldType = "date" ->
                   <<"Date/Time (earliest)", "Date/Time", "Date">>
              [] fieldType = "direction" -> <<"Initial Direction", "Direction">>
              [] fieldType = "duration" -> <<"Duration", "Call Duration">>
              [] fieldType = "agent" -> <<"Agent", "Agent Name">>
              [] OTHER -> <<>>)
      [] ds = "fcr" ->
           (CASE fieldType = "date" -> <<"Date">>
              [] fieldType = "count" -> <<"Count">>
              [] OTHER -> <<>>)
      [] OTHER -> <<>>

\* getFieldMapping(ds, fieldType): CONFIG.fieldMappings[ds]?.[fieldType] || []
getFieldMapping(ds, fieldType) == fieldMappings(ds, fieldType)

\* CONFIG.performance.chartUpdateDebounce, in ms
chartUpdateDebounce == 300

\* CONFIG.validation.dateRange
maxDays == 3650
defaultDays == 3650

(***************************************************************************)
(* utils.js: date range helpers                                            *)
(***************************************************************************)
\* validateDateRange(startDate, endDate) on two strings
validateDateRange(startDate, endDate) ==
    LET s == parseDate(<<startDate>>)
        e == parseDate(<<endDate>>)
    IN  IF s = <<>> \/ e = <<>>
        THEN [valid |-> FALSE, error |-> "Invalid date format"]
        ELSE IF s[1] > e[1]
        THEN [valid |-> FALSE, error |-> "Start date must be before end date"]
        ELSE IF e[1] - s[1] > maxDays * 86400
        THEN [valid |-> FALSE, error |-> "Date range cannot exceed maxDays days"]
        ELSE [valid |-> TRUE, error |-> ""]

\* new Date() when the page runs: 1 February 2024, 12:00 local time
Now == NewDate(2024, 1, 1, 12, 0, 0)

\* getDefaultDateRange() called at the time value now:
\* start.setDate(start.getDate() - defaultDays) moves the local calendar
\* day, formatDate(..., 'input') reads the UTC day
getDefaultDateRangeAt(now) ==
    [start |-> formatDateInput(setDateBy(now, 0 - defaultDays)),
     end   |-> formatDateInput(now)]

getDefaultDateRange == getDefaultDateRangeAt(Now)

(***************************************************************************)
(* data-loader.js: rows                                                    *)
(*                                                                         *)
(* A row of the CSV tokenizer is the sequence of its <<header, value>>     *)
(* pairs in column order, with distinct headers. A processed record keeps  *)
(* the row under raw and the fields processRow adds beside it:             *)
(* date_parsed (absent is <<>>), the numeric fields under numeric (in     *)
(* hundredths) and the boolean fields under flags. __chartDate is          *)
(* ISODay(date_parsed) whenever date_parsed is set.                        *)
(***************************************************************************)
\* Object.keys(r)
ObjectKeys(r) == [i \in 1..Len(r) |-> r[i][1]]

\* r[k]: <<>> when r has no property k
Field(r, k) ==
    LET I == {i \in 1..Len(r) : r[i][1] = k}
    IN  IF I = {} THEN <<>> ELSE <<r[CHOOSE i \in I : TRUE][2]>>

isTotalLike(val) ==
    IF val = <<>> THEN FALSE
    ELSE ToLowerCase(Trim(val[1])) \in
             {"total", "grand total", "subtotal", "summary"}

isBlank(val) == val = <<>> \/ Trim(val[1]) = ""

\* h.replace(/[^a-z0-9]+/g, '') on lowercased text
RECURSIVE KeepAlnum(_)
KeepAlnum(s) ==
    LET Alnum == Digits \cup
            {"a", "b", "c", "d", "e", "f", "g", "h", "i", "j", "k", "l", "m",
             "n", "o", "p", "q", "r", "s", "t", "u", "v", "w", "x", "y", "z"}
    IN  IF s = "" THEN ""
        ELSE (IF Head(s) \in Alnum THEN Head(s) ELSE "") \o KeepAlnum(Tail(s))

normalizeHeader(h) == KeepAlnum(ToLowerCase(Trim(h)))

\* findBestMatch that walks the headers first: the first header that any
\* candidate matches
findBestMatchInHeaderOrder(headers, candidates) ==
    LET hits == {i \in 1..Len(headers) :
                    \E j \in 1..Len(candidates) :
                        normalizeHeader(headers[i]) = normalizeHeader(candidates[j])}
    IN  IF hits = {} THEN <<>>
        ELSE <<headers[CHOOSE i \in hits : \A j \in hits : i <= j]>>

\* findBestMatch(headers, candidates): <<>> is null
RECURSIVE findBestMatch(_, _)
findBestMatch(headers, candidates) ==
    IF candidates = <<>> THEN <<>>
    ELSE LET nc   == normalizeHeader(Head(candidates))
             hits == {i \in 1..Len(headers) : normalizeHeader(headers[i]) = nc}
         IN  IF hits # {}
             THEN <<headers[CHOOSE i \in hits : \A j \in hits : i <= j]>>
             ELSE findBestMatch(headers, Tail(candidates))

\* the copy of the row under its trimmed, non-empty keys
TrimmedRow(row) ==
    LET kept == SelectSeq(row, LAMBDA p : Trim(p[1]) # "")
    IN  [i \in 1..Len(kept) |-> <<Trim(kept[i][1]), kept[i][2]>>]

Truthy(val) == val # <<>> /\ val[1] # ""

\* the last year that holds a time value of a Date (it ends on 13 September
\* 275760); no row modelled holds a date of that year
MaxDateYear == 275760

\* the date of an FCR row; `new Date(year, month - 1, day)` of a year past
\* the range of Date is an invalid date, which !isNaN(dt) rejects
fcrDate(r) ==
    Only({IF /\ year > 1900 * 100
             /\ month >= 100 /\ month <= 1200
             /\ day >= 100 /\ day <= 3100
             /\ year \div 100 <= MaxDateYear
          THEN <<NewDate(year \div 100, month \div 100 - 1, day \div 100,
                         0, 0, 0)>>
          ELSE <<>> :
             year \in {cleanNumber(Field(r, "Year"))},
             month \in {cleanNumber(Field(r, "Month"))},
             day \in {cleanNumber(Field(r, "Date"))}})

\* r[k] = v on the row r
SetProp(r, k, v) ==
    IF \E i \in 1..Len(r) : r[i][1] = k
    THEN [i \in 1..Len(r) |-> IF r[i][1] = k THEN <<k, v>> ELSE r[i]]
    ELSE Append(r, <<k, v>>)

\* s.split(':')
RECURSIVE Split(_)
Split(s) ==
    LET p == IndexOf(s, ":") IN
    IF p = 0 THEN <<s>>
    ELSE <<SubSeq(s, 1, p - 1)>> \o Split(SubSeq(s, p + 1, Len(s)))

\* parseInt(s, 10) || 0: leading blanks and a sign are skipped, the digits
\* that follow are read, and NaN becomes 0
parseIntOrZero(s) ==
    LET t      == IF Trim(s) = "" THEN "" ELSE SubSeq(s, IndexOf(s, Head(Trim(s))), Len(s))
        signed == t # "" /\ Head(t) \in {"-", "+"}
        ip     == DigitPrefix(IF signed THEN Tail(t) ELSE t)
    IN  IF signed /\ Head(t) = "-" THEN 0 - ToInt(ip) ELSE ToInt(ip)

\* the threshold of a connected call, in seconds
ConnectedThreshold == 150

\* the duration in hundredths of a second that the loader derives from
\* the text of the duration column (HH:MM:SS or MM:SS, else a plain number)
durationSeconds(text) ==
    Only({IF Len(parts) \in {2, 3}
          THEN Only({IF Len(n) = 3 THEN (n[1] * 3600 + n[2] * 60 + n[3]) * 100
                     ELSE (n[1] * 60 + n[2]) * 100 :
                        n \in {[i \in 1..Len(parts) |->
                                   parseIntOrZero(parts[i])]}})
          ELSE cleanNumberStr(text) :
             parts \in {Split(Trim(text))}})

\* isConnected = duration_seconds >= 150 in place of > 150
isConnectedAtThreshold(seconds) == seconds >= ConnectedThreshold * 100

\* r.isConnected = (r.duration_seconds > 150)
isConnectedDuration(seconds) == seconds > ConnectedThreshold * 100

\* Number(s) for the text between the colons of a duration: <<>> is NaN.
\* Blank text is 0; fractions and exponents are left out.
NumberOf(s) ==
    LET t      == Trim(s)
        signed == t # "" /\ Head(t) \in {"-", "+"}
        body   == IF signed THEN Tail(t) ELSE t
    IN  IF t = "" THEN <<0>>
        ELSE IF body = "" \/ ~AllDigits(body) THEN <<>>
        ELSE IF Head(t) = "-" THEN <<0 - ToInt(body)>> ELSE <<ToInt(body)>>

\* isConnectedCall(durationStr) of utils.js: a comparison with NaN is false
isConnectedCall(durationStr) ==
    LET parts == Split(durationStr)
        n     == [i \in 1..Len(parts) |-> NumberOf(parts[i])]
    IN  /\ durationStr # ""
        /\ \A i \in 1..Len(parts) : n[i] # <<>>
        /\ (IF Len(parts) = 2 THEN n[1][1] * 60 + n[2][1]
            ELSE IF Len(parts) = 3
            THEN n[1][1] * 3600 + n[2][1] * 60 + n[3][1]
            ELSE 0) > ConnectedThreshold

\* s.startsWith(q)
StartsWith(s, q) == Len(s) >= Len(q) /\ SubSeq(s, 1, Len(q)) = q

\* the branch of processRow for outbound_connectrate. The first copy of
\* data-loader.js has none although config.js maps the source's fields;
\* the branch is the one of the loader version that derives the fields
\* the renderer reads.
processConnectRateRow(r) ==
    LET headers == ObjectKeys(r)
        dateF == findBestMatch(headers,
                               fieldMappings("outbound_connectrate", "date"))
        dirF  == findBestMatch(headers,
                               fieldMappings("outbound_connectrate", "direction"))
        durF  == findBestMatch(headers,
                               fieldMappings("outbound_connectrate", "duration"))
        agF   == findBestMatch(headers,
                               fieldMappings("outbound_connectrate", "agent"))
        agent == IF agF # <<>> THEN Field(r, agF[1])[1] ELSE ""
    IN  Only({[raw |-> SetProp(SetProp(r, "InitialDirection", dir),
                               "Agent", agent),
               date_parsed |->
                   IF dateF # <<>> /\ Truthy(Field(r, dateF[1]))
                   THEN parseDate(Field(r, dateF[1])) ELSE <<>>,
               numeric |-> ("duration_seconds" :> secs),
               flags |-> ("isConnected" :> isConnectedDuration(secs))
                      @@ ("isOutbound" :> StartsWith(dir, "out"))] :
                 dir \in {IF dirF # <<>> /\ Truthy(Field(r, dirF[1]))
                          THEN ToLowerCase(Trim(Field(r, dirF[1])[1]))
                          ELSE ""},
                 secs \in {IF durF # <<>> /\ Truthy(Field(r, durF[1]))
                           THEN durationSeconds(Field(r, durF[1])[1])
                           ELSE 0}})

processRow(row, sourceKey) ==
    LET r == TrimmedRow(row) IN
    CASE sourceKey = "fcr" ->
           [raw |-> r,
            date_parsed |-> fcrDate(r),
            numeric |-> ("Count_numeric" :> cleanNumber(Field(r, "Count"))),
            flags |-> <<>>]
      [] sourceKey = "outbound" ->
           [raw |-> r,
            date_parsed |-> IF Truthy(Field(r, "Date"))
                            THEN parseDate(Field(r, "Date")) ELSE <<>>,
            numeric |->
                ("TotalCalls_numeric" :> cleanNumber(Field(r, "Total Calls")))
             @@ ("TotalCallDuration_numeric" :>
                     cleanNumber(Field(r, "Total Call Duration")))
             @@ ("AnsweredCalls_numeric" :>
                     cleanNumber(Field(r, "Answered Calls")))
             @@ ("MissedCalls_numeric" :> cleanNumber(Field(r, "Missed Calls")))
             @@ ("VoicemailCalls_numeric" :>
                     cleanNumber(Field(r, "Voicemail Calls"))),
            flags |-> <<>>]
      [] sourceKey = "inbound" ->
           LET dateField == findBestMatch(ObjectKeys(r),
                                          fieldMappings("inbound", "date"))
               durF  == findBestMatch(ObjectKeys(r),
                                      fieldMappings("inbound", "duration"))
               waitF == findBestMatch(ObjectKeys(r),
                                      fieldMappings("inbound", "waitTime"))
           IN  [raw |-> r,
                date_parsed |->
                    IF dateField # <<>> /\ Truthy(Field(r, dateField[1]))
                    THEN parseDate(Field(r, dateField[1])) ELSE <<>>,
                numeric |->
                    (IF durF = <<>> THEN <<>>
                     ELSE "duration_numeric" :>
                              cleanNumber(Field(r, durF[1])))
                 @@ (IF waitF = <<>> THEN <<>>
                     ELSE "waitTime_numeric" :>
                              cleanNumber(Field(r, waitF[1]))),
                flags |-> <<>>]
      [] sourceKey = "outbound_connectrate" -> processConnectRateRow(r)
      [] OTHER -> [raw |-> r, date_parsed |-> <<>>, numeric |-> <<>>,
                   flags |-> <<>>]

\* row[name] on a processed record, for a column name of the CSV
Prop(rec, name) == Field(rec.raw, name)

\* the test of isValidRow for outbound_connectrate, of the loader version
\* that has the branch: a parsed date and the outbound direction
isValidConnectRateRow(row) ==
    /\ row.date_parsed # <<>>
    /\ "isOutbound" \in DOMAIN row.flags
    /\ row.flags["isOutbound"]

isValidRow(row, key) ==
    IF /\ \A i \in 1..Len(row.raw) : isBlank(<<row.raw[i][2]>>)
       /\ row.date_parsed = <<>>
       /\ DOMAIN row.numeric = {}
       /\ DOMAIN row.flags = {}
    THEN FALSE
    ELSE CASE key = "outbound" ->
                /\ ~isBlank(Prop(row, "Date"))
                /\ ~isBlank(Prop(row, "Agent"))
                /\ \/ cleanNumber(Prop(row, "Total Calls")) > 0
                   \/ cleanNumber(Prop(row, "Answered Calls")) > 0
                   \/ cleanNumber(Prop(row, "Missed Calls")) > 0
                   \/ cleanNumber(Prop(row, "Voicemail Calls")) > 0
           [] key = "fcr" ->
                /\ ~isBlank(Prop(row, "Year"))
                /\ ~isBlank(Prop(row, "Month"))
                /\ ~isBlank(Prop(row, "Date"))
                /\ ~isTotalLike(Prop(row, "Year"))
                /\ ~isTotalLike(Prop(row, "Month"))
                /\ ~isTotalLike(Prop(row, "Date"))
                /\ cleanNumber(Prop(row, "Count")) > 0
           [] key = "inbound" -> ~isBlank(Prop(row, "Call ID"))
           [] key = "outbound_connectrate" -> isValidConnectRateRow(row)
           [] OTHER -> TRUE

\* processData without the validity test
processDataUnfiltered(rows, key) ==
    [i \in 1..Len(rows) |-> processRow(rows[i], key)]

processData(rows, key) ==
    SelectSeq([i \in 1..Len(rows) |-> processRow(rows[i], key)],
              LAMBDA r : isValidRow(r, key))

(***************************************************************************)
(* The loader version of src/unnamed/part_001, whose processRow returns    *)
(* null for rows it leaves out and can throw. What processRow does with a  *)
(* row is [kind, rec]: kind "record" with the record in rec, kind "null",  *)
(* or kind "throws" for an exception that leaves processRow.               *)
(***************************************************************************)
RowRecord(rec) == [kind |-> "record", rec |-> <<rec>>]

RowNull == [kind |-> "null", rec |-> <<>>]

RowThrows == [kind |-> "throws", rec |-> <<>>]


\* the fcr branch for the row r, given cleanNumber of its Year, Month, Date
\* and Count: a row with a year but no month or day yields null, and
\* dt.toISOString() throws a RangeError on a date beyond the range of Date
fcrRowP1(r, year, month, day, count) ==
    IF year <= 1900 * 100
    THEN RowRecord([raw |-> r, date_parsed |-> <<>>,
                    numeric |-> ("Count_numeric" :> count), flags |-> <<>>])
    ELSE IF ~(month >= 100 /\ day >= 100) THEN RowNull
    ELSE IF year \div 100 + (month \div 100 - 1) \div 12 > MaxDateYear
    THEN RowThrows
    ELSE RowRecord([raw |-> r,
                    date_parsed |-> <<NewDate(year \div 100, month \div 100 - 1,
                                              day \div 100, 0, 0, 0)>>,
                    numeric |-> ("Count_numeric" :> count), flags |-> <<>>])

processFcrRowP1(r) ==
    fcrRowP1(r, cleanNumber(Field(r, "Year")), cleanNumber(Field(r, "Month")),
             cleanNumber(Field(r, "Date")), cleanNumber(Field(r, "Count")))

\* r[f] for the header f that findBestMatch returned: <<>> when f is null
\* or r[f] is falsy
FieldIfSet(r, f) ==
    IF f # <<>> /\ Truthy(Field(r, f[1])) THEN Field(r, f[1]) ELSE <<>>

\* the outbound_connectrate branch for the row r, given its direction, the
\* value of its date column and of its duration column (<<>> when the
\* column is missing or the value falsy): a row whose direction is not
\* 'outbound' yields null
connectRateRowP1(r, direction, date, duration) ==
    IF ~Truthy(direction) \/ ToLowerCase(direction[1]) # "outbound"
    THEN RowNull
    ELSE RowRecord(
             [raw |-> r,
              date_parsed |-> IF date # <<>> THEN parseDate(date) ELSE <<>>,
              numeric |-> IF duration # <<>>
                          THEN "duration_numeric" :> cleanNumber(duration)
                          ELSE <<>>,
              flags |-> "isConnected" :>
                  (duration # <<>> /\ isConnectedCall(duration[1]))])

\* r['Initial Direction'] || r['Direction']
directionOf(r, initial) ==
    IF Truthy(initial) THEN initial ELSE Field(r, "Direction")

processConnectRateRowP1(r) ==
    connectRateRowP1(
        r, directionOf(r, Field(r, "Initial Direction")),
        FieldIfSet(r, findBestMatch(ObjectKeys(r),
                       fieldMappings("outbound_connectrate", "date"))),
        FieldIfSet(r, findBestMatch(ObjectKeys(r),
                       fieldMappings("outbound_connectrate", "duration"))))

\* the record of the outbound and inbound branches, which are those of
\* processRow but for r.OutboundCalls_numeric on outbound
withOutboundCalls(rec, sourceKey) ==
    IF sourceKey = "outbound"
    THEN RowRecord([rec EXCEPT !.numeric =
                       @ @@ ("OutboundCalls_numeric" :>
                                cleanNumber(Prop(rec, "Outbound Calls")))])
    ELSE RowRecord(rec)

\* processRow(row, map, sourceKey) of part_001
processRowP1(row, sourceKey) ==
    CASE sourceKey = "fcr" -> processFcrRowP1(TrimmedRow(row))
      [] sourceKey = "outbound_connectrate" ->
           processConnectRateRowP1(TrimmedRow(row))
      [] OTHER -> withOutboundCalls(processRow(row, sourceKey), sourceKey)

\* isValidRow(row, key) of part_001 on what processRow returned
isValidRowP1(out, key) ==
    IF out.kind = "null" THEN FALSE
    ELSE LET row == out.rec[1] IN
         IF /\ \A i \in 1..Len(row.raw) : isBlank(<<row.raw[i][2]>>)
            /\ row.date_parsed = <<>>
            /\ DOMAIN row.numeric = {}
            /\ DOMAIN row.flags = {}
         THEN FALSE
         ELSE CASE key = "outbound" -> ~isBlank(Prop(row, "Agent"))
                [] key = "fcr" -> ~isBlank(Prop(row, "Year"))
                [] key = "outbound_connectrate" -> ~isBlank(Prop(row, "Call ID"))
                [] key = "inbound" -> ~isBlank(Prop(row, "Call ID"))
                [] OTHER -> TRUE

\* the records that the values of processRow hold
recordsOf(outs) == [i \in 1..Len(outs) |-> outs[i].rec[1]]

\* the records of the rows for which the loop of processData reaches
\* out.push(r), in the order of the rows: those whose processRow does not
\* throw (the catch clause skips the row) and returns a valid row
pushedRecords(rows, key) ==
    recordsOf(SelectSeq([i \in 1..Len(rows) |-> processRowP1(rows[i], key)],
                        LAMBDA out : /\ out.kind # "throws"
                                     /\ isValidRowP1(out, key)))

\* processData without the try/catch around a row: the exception of a row
\* leaves processData
processDataP1Unguarded(rows, key) ==
    IF \E i \in 1..Len(rows) : processRowP1(rows[i], key).kind = "throws"
    THEN [threw |-> TRUE, out |-> <<>>]
    ELSE [threw |-> FALSE, out |-> pushedRecords(rows, key)]

\* processData(rows, key) of part_001: what it returns, or that it threw
processDataP1(rows, key) ==
    [threw |-> FALSE, out |-> pushedRecords(rows, key)]

(***************************************************************************)
(* The CSV documents the server may hold                                   *)
(***************************************************************************)
MaxRefreshCalls == 1 \* DataLoader.refresh(key) calls in a behaviour
NumFiles == 1       \* documents per source that a fetch may return
MaxMutations == 1   \* in-place changes callers make to returned arrays
MaxBurstCount == 2  \* triggers and renders counted in a burst (saturating)

InboundRow(id, dt, agent, disp, talk, wait) ==
    << <<"Call ID", id>>, <<"Date/Time", dt>>, <<"Agent Name", agent>>,
       <<"Disposition", disp>>, <<"Talk Time", talk>>, <<"Wait Time", wait>> >>

OutboundRow(dt, agent, total, answered, missed, vm, dur) ==
    << <<"Date", dt>>, <<"Agent", agent>>, <<"Total Calls", total>>,
       <<"Answered Calls", answered>>, <<"Missed Calls", missed>>,
       <<"Voicemail Calls", vm>>, <<"Total Call Duration", dur>> >>

ConnectRow(id, dt, dir, dur, agent) ==
    << <<"Call ID", id>>, <<"Date/Time (earliest)", dt>>,
       <<"Initial Direction", dir>>, <<"Duration", dur>>, <<"Agent", agent>> >>

FcrRow(y, m, d, count) ==
    << <<"Year", y>>, <<"Month", m>>, <<"Date", d>>, <<"Count", count>> >>

\* rows a document of the source may hold: data rows, dated and undated,
\* and the footer and total rows the exports carry
RowPool(key) ==
    CASE key = "inbound" ->
           << InboundRow("c1", "05/01/2024 10:00", "Ann", "Answered", "120", "10"),
              InboundRow("", "Total", "", "", "300", "25"),
              InboundRow("c2", "20/01/2024 09:30", "Bob", "Abandoned", "0", "45"),
              InboundRow("c3", "n/a", "Ann", "Missed", "", "") >>
      [] key = "outbound" ->
           << OutboundRow("05/01/2024", "Ann", "12", "7", "4", "1", "1,250"),
              OutboundRow("Total", "", "30", "15", "12", "3", "3,000"),
              OutboundRow("21/01/2024", "Bob", "18", "8", "8", "2", "1,750"),
              OutboundRow("20/01/2024", "Cid", "0", "0", "0", "0", "0"),
              OutboundRow("Total", "All", "30", "15", "12", "3", "3,000") >>
      [] key = "outbound_connectrate" ->
           << ConnectRow("k1", "05/01/2024 11:00", "Outbound", "02:31", "Ann"),
              ConnectRow("k2", "20/01/2024 12:00", "Inbound", "03:00", "Bob"),
              ConnectRow("k3", "20/01/2024 13:00", "Outbound", "02:30", "Bob"),
              ConnectRow("k4", "unknown", "outbound ", "0:02:45", "Ann") >>
      [] key = "fcr" ->
           << FcrRow("2024", "1", "5", "3"),
              FcrRow("Total", "", "", "9"),
              FcrRow("2024", "13", "5", "2"),
              FcrRow("2024", "1", "20", "4") >>

\* the documents of a source, longest first
FileVariants(key) ==
    << RowPool(key), SubSeq(RowPool(key), 3, 4), SubSeq(RowPool(key), 2, 2) >>

Files(key) == {FileVariants(key)[i] : i \in 1..NumFiles}

\* what a fetch of the source's url may bring: a response with resp.ok
\* false, a blank body, or a document
Responses(key) ==
    {[kind |-> k, rows |-> <<>>] : k \in {"http", "blank"}}
        \cup {[kind |-> "csv", rows |-> f] : f \in Files(key)}

\* the rows of a document at the positions S, in document order
Pick(rows, S) ==
    LET F[i \in 0..Len(rows)] ==
            IF i = 0 THEN <<>>
            ELSE IF i \in S THEN Append(F[i - 1], rows[i]) ELSE F[i - 1]
    IN  F[Len(rows)]

\* every document made of rows of the source's pool
SubDocuments(key) ==
    {Pick(RowPool(key), S) : S \in SUBSET (1..Len(RowPool(key)))}

\* processData on every document of every source, computed once
Processed ==
    [key \in SourceSet |->
        [f \in Files(key) \cup SubDocuments(key) |-> processData(f, key)]]

(***************************************************************************)
(* data-loader.js: queries                                                 *)
(*                                                                         *)
(* A JavaScript value that getData handles is [kind, ref, value]: an array *)
(* has kind "array", its elements in value and its identity in ref         *)
(* ("store" is the array held in this.data[key], "fresh" a new array); a   *)
(* member that this.data inherits from Object.prototype has kind           *)
(* "inherited"; a call that throws yields kind "TypeError".                *)
(***************************************************************************)
Arr(ref, value) == [kind |-> "array", ref |-> ref, value |-> value]

Inherited == [kind |-> "inherited", ref |-> "prototype", value |-> <<>>]

TypeError == [kind |-> "TypeError", ref |-> "none", value |-> <<>>]

\* members that the object literal {} of this.data inherits
ObjectPrototypeKeys ==
    {"constructor", "toString", "toLocaleString", "valueOf", "hasOwnProperty",
     "isPrototypeOf", "propertyIsEnumerable", "__proto__"}

\* d[key] || [] for the stores d
StoreIn(d, key) ==
    IF key \in DOMAIN d THEN Arr("store", d[key])
    ELSE IF key \in ObjectPrototypeKeys THEN Inherited
    ELSE Arr("fresh", <<>>)

\* this.data[key] || []
StoreOrEmpty(key) == StoreIn(data, key)

\* v.length: an inherited member is a function, whose length is its arity
Length(v) == IF v.kind = "array" THEN Len(v.value) ELSE 1

\* r.date_parsed && r.date_parsed >= s && r.date_parsed <= eod
InDateRange(r, s, eod) ==
    r.date_parsed # <<>> /\ r.date_parsed[1] >= s /\ r.date_parsed[1] <= eod

\* data.some(r => r.date_parsed instanceof Date && !isNaN(r.date_parsed))
hasAnyDate(recs) == \E i \in 1..Len(recs) : recs[i].date_parsed # <<>>

\* filterDates that keeps the records without a parsed date
filterDatesKeepsUndated(d, s, e) ==
    IF s = <<>> \/ e = <<>> THEN d
    ELSE IF d.kind # "array" THEN TypeError
    ELSE IF ~hasAnyDate(d.value) THEN d
    ELSE Arr("fresh",
             SelectSeq(d.value,
                       LAMBDA r : \/ r.date_parsed = <<>>
                                  \/ InDateRange(r, s[1], EndOfLocalDay(e[1]))))

\* filterDates without the hasAnyDate test
filterDatesNoDateCheck(d, s, e) ==
    IF s = <<>> \/ e = <<>> THEN d
    ELSE IF d.kind # "array" THEN TypeError
    ELSE Arr("fresh",
             SelectSeq(d.value,
                       LAMBDA r : InDateRange(r, s[1], EndOfLocalDay(e[1]))))

\* filterByDateRange from `if (!s || !e)` on, for the value d of
\* this.data[key] || [] and the parsed dates s and e: data.some and
\* data.filter throw on a value that is no array
filterDates(d, s, e) ==
    IF s = <<>> \/ e = <<>> THEN d
    ELSE IF d.kind # "array" THEN TypeError
    ELSE IF ~hasAnyDate(d.value) THEN d
    ELSE Arr("fresh",
             SelectSeq(d.value,
                       LAMBDA r : InDateRange(r, s[1], EndOfLocalDay(e[1]))))

\* filterByDateRange(key, startDate, endDate), store the value of
\* this.data[key] || []
filterByDateRange(store, startDate, endDate) ==
    IF ~Truthy(startDate) \/ ~Truthy(endDate) THEN store
    ELSE Only({filterDates(store, s, e) :
                   s \in {parseDate(startDate)},
                   e \in {parseDate(endDate)}})

\* fields.some((f) => r[f] && String(r[f]).toLowerCase().includes(q))
MatchesAny(r, fields, q) ==
    \E i \in 1..Len(fields) :
        /\ Truthy(Prop(r, fields[i]))
        /\ Includes(ToLowerCase(Prop(r, fields[i])[1]), q)

\* the agent and the status filter of getData: data.filter(...) on v when
\* filters[fieldType] is set
filterByField(v, key, filters, fieldType) ==
    IF v.kind = "TypeError" \/ ~Truthy(filters[fieldType]) THEN v
    ELSE IF v.kind # "array" THEN TypeError
    ELSE Arr("fresh",
             SelectSeq(v.value,
                       LAMBDA r : MatchesAny(r, getFieldMapping(key, fieldType),
                                             ToLowerCase(filters[fieldType][1]))))

\* a date step that uses the filtered records whatever their number
useFilteredAlways(key, original, filtered) == filtered

\* the date step of getData once filterByDateRange returned filtered: the
\* filtered records are used only if there are some, or for inbound
useFiltered(key, original, filtered) ==
    IF filtered.kind = "TypeError" THEN filtered
    ELSE IF Length(filtered) > 0 \/ key = "inbound" THEN filtered
    ELSE original

\* getData(key, filters) when this.data[key] || [] is store
getDataOf(store, key, filters) ==
    Only({filterByField(byAgent, key, filters, "status") :
            byAgent \in
                {filterByField(byDate, key, filters, "agent") :
                    byDate \in
                        {IF Truthy(filters.startDate) /\ Truthy(filters.endDate)
                         THEN Only({useFiltered(key, store, filtered) :
                                      filtered \in
                                          {filterByDateRange(
                                               store, filters.startDate,
                                               filters.endDate)}})
                         ELSE store}}})

\* getData(key, filters)
getData(key, filters) == getDataOf(StoreOrEmpty(key), key, filters)

(***************************************************************************)
(* data-loader.js: DataLoader                                              *)
(***************************************************************************)
\* the dateRange computed inline by loadDataSource: <<>> is null
dateRange(recs) ==
    LET dates == {recs[i].date_parsed[1] :
                     i \in {j \in 1..Len(recs) : recs[j].date_parsed # <<>>}}
    IN  IF dates = {} THEN <<>>
        ELSE <<[start |-> CHOOSE d \in dates : \A e \in dates : d <= e,
                end   |-> CHOOSE d \in dates : \A e \in dates : e <= d,
                count |-> Cardinality({j \in 1..Len(recs) :
                                          recs[j].date_parsed # <<>>})]>>

\* the metadata object loadDataSource builds for the records recs
metadataOf(recs) == <<[rowCount |-> Len(recs), dateRange |-> dateRange(recs)]>>

\* loadDataSource(key) on the response resp: the value it resolves to, or
\* the message of the Error it throws
Resolved(recs) ==
    [threw |-> FALSE, data |-> recs, metadata |-> metadataOf(recs)]

loadDataSource(key, resp) ==
    CASE resp.kind = "http"  -> [threw |-> TRUE, message |-> "404 Not Found"]
      [] resp.kind = "blank" -> [threw |-> TRUE, message |-> "Empty data file"]
      [] OTHER -> Resolved(Processed[key][resp.rows])

\* the result object that a task of loadAll's keys.map returns when
\* loadDataSource ended as res, with the response kept beside it
TaskResult(key, resp, res) ==
    IF res.threw
    THEN [key |-> key, data |-> <<>>, metadata |-> <<>>,
          error |-> <<res.message>>, resp |-> resp]
    ELSE [key |-> key, data |-> res.data, metadata |-> res.metadata,
          error |-> <<>>, resp |-> resp]

\* one task of loadAll's keys.map on the response resp
LoadTask(key, resp) == TaskResult(key, resp, loadDataSource(key, resp))

\* loadAll without the try/catch around each task: one failure rejects
\* Promise.all and nothing is stored
ApplyResultsUnlessRejected(obj, res, field) ==
    IF \E k \in SourceSet : res[k][1].error # <<>> THEN obj
    ELSE [k \in DOMAIN obj \cup SourceSet |->
             IF k \in SourceSet THEN res[k][1][field] ELSE obj[k]]

\* results.forEach(...) of loadAll on the object obj (data or metadata):
\* every key receives the field of its result
ApplyResults(obj, res, field) ==
    [k \in DOMAIN obj \cup SourceSet |->
        IF k \in SourceSet THEN res[k][1][field] ELSE obj[k]]

Pending == [k \in SourceSet |-> <<>>]

\* the event recorded in last: "step" for a step that completes no operation
Event(op, key, ok) == [op |-> op, key |-> key, ok |-> ok]

TypeOK ==
    /\ DOMAIN data \subseteq SourceSet
    /\ DOMAIN metadata = DOMAIN data
    /\ isLoading \in BOOLEAN
    /\ DOMAIN results = SourceSet
    /\ loadOwner \in {"none", "init", "refreshData"}
    /\ single \subseteq SourceSet
    /\ refreshCalls \in 0..MaxRefreshCalls
    /\ initState \in {"new", "started", "done"}
    /\ errorShown \in BOOLEAN

\* the charts of the page rendered from the stores d
Charts(page, d) == <<[page |-> page, data |-> d]>>

\* the view as `new Dashboard()` leaves it: the first page, nothing drawn
ViewIdle ==
    /\ currentPage = "inbound"
    /\ shown = <<>>
    /\ navigating = FALSE
    /\ charts = <<>>
    /\ liveCharts = {}

\* the object {startDate, endDate} held in Dashboard.currentFilters
Filters(startDate, endDate) == [startDate |-> startDate, endDate |-> endDate]

\* no getData result is held by a caller
QueryIdle ==
    /\ query = <<>>
    /\ returned = <<>>
    /\ mutations = 0

\* debouncedRender as debounce() returned it: no timeout set
DebounceIdle ==
    /\ timers = <<>>
    /\ sinceTrigger = <<>>
    /\ burst = [triggers |-> 0, runs |-> 0]
    /\ closed = <<>>

\* the state after `new DataLoader()` and `new Dashboard()`, in a browser
\* that holds no persisted filters
Init ==
    /\ data = <<>>
    /\ metadata = <<>>
    /\ isLoading = FALSE
    /\ results = Pending
    /\ loadOwner = "none"
    /\ single = {}
    /\ refreshCalls = 0
    /\ initState = "new"
    /\ last = Event("constructed", "", TRUE)
    /\ dateFrom = ""
    /\ dateTo = ""
    /\ currentFilters = <<>>
    /\ storage = <<>>
    /\ errorShown = FALSE
    /\ rendered = <<>>
    /\ ViewIdle
    /\ QueryIdle
    /\ DebounceIdle

\* Dashboard.setDefaultDateRange() called at the time value now
setDefaultDateRange(now) ==
    LET persisted == /\ storage # <<>>
                     /\ Truthy(storage[1].startDate)
                     /\ Truthy(storage[1].endDate)
        defaultRange == IF persisted
                        THEN [start |-> storage[1].startDate[1],
                              end   |-> storage[1].endDate[1]]
                        ELSE getDefaultDateRangeAt(now)
    IN  /\ dateFrom' = defaultRange.start
        /\ dateTo' = defaultRange.end
        /\ currentFilters' = Filters(<<defaultRange.start>>, <<defaultRange.end>>)

\* the filters object that getData reads, for Dashboard.currentFilters as
\* updateFilters copied it: agent and status are never set by the dashboard
rendererFilters ==
    IF DOMAIN currentFilters = {}
    THEN [startDate |-> <<>>, endDate |-> <<>>, agent |-> <<>>, status |-> <<>>]
    ELSE [startDate |-> currentFilters.startDate,
          endDate |-> currentFilters.endDate,
          agent |-> <<>>, status |-> <<>>]

(***************************************************************************)
(* chart-manager.js: the registry of charts                                *)
(*                                                                         *)
(* A ChartManager is [charts, live]: charts is this.charts, a function     *)
(* from container ids to Chart instances, and live is the set of Chart     *)
(* instances that `new Chart` made and on which destroy() has not been     *)
(* called, each <<container id, instance>>.  Instances of one container    *)
(* are numbered from 1.                                                    *)
(***************************************************************************)
Manager(reg, live) == [charts |-> reg, live |-> live]

\* this.charts = new Map()
NoCharts == Manager(<<>>, {})

\* the instance that `new Chart(canvas, config)` makes for a container: one
\* that is not any of its live instances
NewChart(mgr, containerId) ==
    CHOOSE n \in 1..(Cardinality(mgr.live) + 1) :
        /\ <<containerId, n>> \notin mgr.live
        /\ \A m \in 1..(n - 1) : <<containerId, m>> \in mgr.live

\* destroyChart(containerId)
destroyChart(mgr, containerId) ==
    IF containerId \in DOMAIN mgr.charts
    THEN Manager([c \in DOMAIN mgr.charts \ {containerId} |-> mgr.charts[c]],
                 mgr.live \ {<<containerId, mgr.charts[containerId]>>})
    ELSE mgr

\* what a createChart call may meet
ChartOutcomes == {"created", "no container", "throws"}

\* createChart that does not destroy the chart the container holds
createChartKeeping(mgr, containerId, outcome) ==
    IF outcome # "created" THEN mgr
    ELSE Manager((containerId :> NewChart(mgr, containerId)) @@ mgr.charts,
                 mgr.live \cup {<<containerId, NewChart(mgr, containerId)>>})

\* createChart(containerId, config): without the container nothing is done;
\* else the container's chart is destroyed and `new Chart` either makes the
\* chart, which is registered, or throws
createChart(mgr, containerId, outcome) ==
    IF outcome = "no container" THEN mgr
    ELSE IF outcome = "throws" THEN destroyChart(mgr, containerId)
    ELSE Manager((containerId :> NewChart(destroyChart(mgr, containerId),
                                          containerId))
                     @@ destroyChart(mgr, containerId).charts,
                 destroyChart(mgr, containerId).live
                     \cup {<<containerId,
                             NewChart(destroyChart(mgr, containerId),
                                      containerId)>>})

\* destroyAllCharts()
destroyAllCharts(mgr) ==
    Manager(<<>>, mgr.live \ {<<c, mgr.charts[c]>> : c \in DOMAIN mgr.charts})

\* the container ids of the charts that the renderer of a page creates, in
\* the order of creation
PageCharts(page) ==
    IF page = "inbound"
    THEN <<"inbound-calls-over-time", "inbound-status", "inbound-agent">>
    ELSE IF page = "outbound"
    THEN <<"outbound-calls-over-time", "outbound-outcomes", "outbound-agent">>
    ELSE <<"fcr-cases-over-time">>

\* the createChart calls of a renderer, one container after the other: the
\* i-th call meets outcomes[i], and a renderer that throws makes only the
\* calls before
createChartsMeeting(mgr, ids, outcomes) ==
    LET F[i \in 0..Len(outcomes)] ==
            IF i = 0 THEN mgr
            ELSE Only({createChart(m, ids[i], outcomes[i]) : m \in {F[i - 1]}})
    IN  F[Len(outcomes)]

\* every createChart call of a renderer makes its chart
AllCreated(ids) == [i \in 1..Len(ids) |-> "created"]

\* what the createChart calls of a renderer may meet
RenderOutcomes(ids) ==
    UNION {[1..n -> ChartOutcomes] : n \in 0..Len(ids)}

\* the charts of a page created one after the other, each in its container
createCharts(mgr, ids) == createChartsMeeting(mgr, ids, AllCreated(ids))

\* the renderer of a page goes on to its tiles and charts: it returns
\* before them when getData gave it no record (for outbound, no record of
\* either outbound source)
PageHasData(d, page, filters) ==
    \/ Length(getDataOf(StoreIn(d, page), page, filters)) > 0
    \/ /\ page = "outbound"
       /\ Length(getDataOf(StoreIn(d, "outbound_connectrate"),
                           "outbound_connectrate", filters)) > 0

\* the ChartManager after the renderer of a page has run on the stores d
renderCharts(mgr, d, page) ==
    IF PageHasData(d, page, rendererFilters)
    THEN createCharts(mgr, PageCharts(page)) ELSE mgr

\* a render that draws the first page whatever the current page is
renderFirstPage(d, before, mgr) ==
    /\ rendered' = IF currentPage \in DOMAIN d THEN <<currentFilters>>
                   ELSE rendered
    /\ shown' = IF currentPage \in DOMAIN d THEN Charts("inbound", d)
                ELSE before
    /\ \E m \in {IF currentPage \in DOMAIN d
                  THEN renderCharts(mgr, d, "inbound") ELSE mgr} :
          charts' = m.charts /\ liveCharts' = m.live

\* Dashboard.renderCurrentPage() on the stores d, the page showing the
\* charts `before` and the ChartManager being mgr: nothing is rendered while
\* the page's source has no store entry
renderCurrentPage(d, before, mgr) ==
    /\ rendered' = IF currentPage \in DOMAIN d THEN <<currentFilters>>
                   ELSE rendered
    /\ shown' = IF currentPage \in DOMAIN d THEN Charts(currentPage, d)
                ELSE before
    /\ \E m \in {IF currentPage \in DOMAIN d
                  THEN renderCharts(mgr, d, currentPage) ELSE mgr} :
          charts' = m.charts /\ liveCharts' = m.live

\* the view after the first page has been rendered from the stores d
ViewOf(d) ==
    /\ currentPage = "inbound"
    /\ shown = IF "inbound" \in DOMAIN d THEN Charts("inbound", d) ELSE <<>>
    /\ navigating = FALSE
    /\ \E m \in {IF "inbound" \in DOMAIN d
                  THEN renderCharts(NoCharts, d, "inbound") ELSE NoCharts} :
          charts = m.charts /\ liveCharts = m.live

\* `results` is a local of loadAll: it is gone in the step after loadAll
\* has returned
KeepResults == results' = IF isLoading THEN results ELSE Pending

\* loadAll() up to its await, called by owner: a second call while one is
\* in progress returns at once
LoadAllStart(owner) ==
    /\ ~isLoading
    /\ isLoading' = TRUE
    /\ errorShown' = FALSE
    /\ results' = Pending
    /\ loadOwner' = owner

\* Dashboard.init() up to `await dataLoader.loadAll()`, called at the time
\* value now
DashboardInitAt(now) ==
    /\ initState = "new"
    /\ initState' = "started"
    /\ setDefaultDateRange(now)
    /\ LoadAllStart("init")
    /\ last' = Event("step", "", TRUE)
    /\ UNCHANGED <<data, metadata, single, refreshCalls, storage, rendered,
                   queryVars, debounceVars,
                   viewVars>>

DashboardInit == DashboardInitAt(Now)

\* the fetch of one task of the loadAll in flight settles while other tasks
\* are still pending
TaskSettles(key) ==
    /\ isLoading
    /\ results[key] = <<>>
    /\ \E k \in SourceSet \ {key} : results[k] = <<>>
    /\ \E resp \in Responses(key) :
          results' = [results EXCEPT ![key] = <<LoadTask(key, resp)>>]
    /\ last' = Event("step", "", TRUE)
    /\ UNCHANGED <<data, metadata, isLoading, loadOwner, single, refreshCalls,
                   initState, errorShown, rendered, queryVars, filterVars,
                   debounceVars,
                   viewVars>>

\* loadAll that resets isLoading as the last statement of its try block
\* and gives up the load when a source has failed
loadAllResetUnlessFailed(res) ==
    isLoading' = (\E k \in SourceSet : res[k][1].error # <<>>)

\* the finally clause of loadAll
loadAllFinally(res) == isLoading' = FALSE

\* the rest of loadAll once Promise.all has resolved to res, and the
\* continuation of its caller: the results are stored, errors are shown and
\* the page is rendered
StoreResults(res) ==
    /\ results' = res
    /\ loadAllFinally(res)
    /\ data' = ApplyResults(data, res, "data")
    /\ metadata' = ApplyResults(metadata, res, "metadata")
    /\ errorShown' = (errorShown \/ \E k \in SourceSet : res[k][1].error # <<>>)
    /\ \E d \in {ApplyResults(data, res, "data")} :
          renderCurrentPage(d, shown, Manager(charts, liveCharts))
    /\ last' = Event(IF loadOwner = "init" THEN "initDone"
                     ELSE "refreshDataDone", "",
                     \A k \in SourceSet : res[k][1].error = <<>>)

\* the last pending task settles: Promise.all resolves and, in the same
\* turn of the event loop, loadAll stores every result and returns, and the
\* caller awaiting it goes on
LoadAllCompletes(key) ==
    /\ isLoading
    /\ results[key] = <<>>
    /\ \A k \in SourceSet \ {key} : results[k] # <<>>
    /\ \E res \in {[results EXCEPT ![key] = <<LoadTask(key, resp)>>] :
                      resp \in Responses(key)} :
          StoreResults(res)
    /\ loadOwner' = "none"
    /\ initState' = IF loadOwner = "init" THEN "done" ELSE initState
    /\ UNCHANGED <<single, refreshCalls, queryVars, filterVars, debounceVars,
                   currentPage, navigating>>

\* DataLoader.clear()
clear ==
    /\ data' = <<>>
    /\ metadata' = <<>>

\* Dashboard.refreshData() (the refresh button, Ctrl+R, the auto-refresh
\* interval) while no loadAll is in progress: clear, the charts are
\* destroyed, then loadAll starts
RefreshDataLoads ==
    /\ initState # "new"
    /\ clear
    /\ shown' = <<>>
    /\ charts' = destroyAllCharts(Manager(charts, liveCharts)).charts
    /\ liveCharts' = destroyAllCharts(Manager(charts, liveCharts)).live
    /\ LoadAllStart("refreshData")
    /\ last' = Event("step", "", TRUE)
    /\ UNCHANGED <<single, refreshCalls, initState, rendered, queryVars,
                   filterVars, debounceVars, currentPage, navigating>>

\* loadAll() that starts its fetches although a loadAll is in progress
loadAllRestarting ==
    /\ isLoading' = TRUE
    /\ errorShown' = FALSE
    /\ results' = Pending
    /\ loadOwner' = "refreshData"

\* loadAll() called while a loadAll is in progress:
\* `if (this.isLoading) return;`
loadAllWhileLoading ==
    /\ isLoading
    /\ UNCHANGED <<isLoading, errorShown, results, loadOwner>>

\* Dashboard.refreshData() while a loadAll is in progress: clear, the charts
\* are destroyed, loadAll returns at once, nothing is rendered and the
\* invocation is complete
RefreshDataSkips ==
    /\ initState # "new"
    /\ isLoading
    /\ clear
    /\ loadAllWhileLoading
    /\ renderCurrentPage(<<>>, <<>>,
                         destroyAllCharts(Manager(charts, liveCharts)))
    /\ last' = Event("refreshDataSkipped", "", TRUE)
    /\ UNCHANGED <<single, refreshCalls, initState, queryVars, filterVars,
                   debounceVars, currentPage, navigating>>

\* DataLoader.refresh(key) up to `await this.loadDataSource(key)`
RefreshStart(key) ==
    /\ key \notin single
    /\ refreshCalls < MaxRefreshCalls
    /\ refreshCalls' = refreshCalls + 1
    /\ single' = single \cup {key}
    /\ last' = Event("step", "", TRUE)
    /\ KeepResults
    /\ UNCHANGED <<data, metadata, isLoading, loadOwner, initState, errorShown,
                   rendered, queryVars, filterVars, debounceVars,
                   viewVars>>

\* refresh that adds the records it loaded to those the store holds
refreshAppending(key, res) ==
    /\ IF res.threw
       THEN /\ errorShown' = TRUE
            /\ UNCHANGED <<data, metadata>>
       ELSE /\ data' = [k \in DOMAIN data \cup {key} |->
                           IF k # key THEN data[k]
                           ELSE IF k \in DOMAIN data THEN data[k] \o res.data
                           ELSE res.data]
            /\ metadata' = [k \in DOMAIN metadata \cup {key} |->
                               IF k = key THEN res.metadata ELSE metadata[k]]
            /\ UNCHANGED errorShown
    /\ last' = Event("refreshDone", key, ~res.threw)

\* the rest of DataLoader.refresh(key) when loadDataSource ended as res
refresh(key, res) ==
    /\ IF res.threw
       THEN /\ errorShown' = TRUE
            /\ UNCHANGED <<data, metadata>>
       ELSE /\ data' = [k \in DOMAIN data \cup {key} |->
                           IF k = key THEN res.data ELSE data[k]]
            /\ metadata' = [k \in DOMAIN metadata \cup {key} |->
                               IF k = key THEN res.metadata ELSE metadata[k]]
            /\ UNCHANGED errorShown
    /\ last' = Event("refreshDone", key, ~res.threw)

RefreshSettles(key) ==
    /\ key \in single
    /\ single' = single \ {key}
    /\ \E resp \in Responses(key) : refresh(key, loadDataSource(key, resp))
    /\ KeepResults
    /\ UNCHANGED <<isLoading, loadOwner, refreshCalls, initState, rendered,
                   queryVars, filterVars, debounceVars,
                   viewVars>>

(***************************************************************************)
(* data-loader.js: the callers of getData                                  *)
(***************************************************************************)
\* the keys getData is called with: the sources, a name that is no source
\* and a member name of Object.prototype
QueryKeys == SourceSet \cup {"unknown", "constructor"}

\* start and end dates a caller passes: none, one of them, a range that
\* holds some records, one that holds all, one that holds none, an
\* inverted one and one that does not parse
QueryDates ==
    { <<<<>>, <<>>>>,
      <<<<"2024-01-01">>, <<>>>>,
      <<<<"2024-01-01">>, <<"2024-01-10">>>>,
      <<<<"2024-01-01">>, <<"2024-01-31">>>>,
      <<<<"2024-01-31">>, <<"2024-01-31">>>>,
      <<<<"2024-01-10">>, <<"2024-01-01">>>>,
      <<<<"not a date">>, <<"2024-01-10">>>> }

QueryFilters ==
    {[startDate |-> d[1], endDate |-> d[2], agent |-> a, status |-> st] :
        d \in QueryDates, a \in {<<>>, <<"ann">>, <<"Zed">>},
        st \in {<<>>, <<"aband">>}}

\* the stores a load of documents leaves: one source holds any document of
\* its pool, the others their longest document
StoreStates ==
    UNION {{[k \in SourceSet |->
                Processed[k][IF k = f THEN doc ELSE RowPool(k)]] :
            doc \in SubDocuments(f)} : f \in SourceSet}

\* the dashboard after init() has loaded the stores d and rendered
Loaded(d) ==
    /\ data = d
    /\ metadata = [k \in DOMAIN d |-> metadataOf(d[k])]
    /\ isLoading = FALSE
    /\ results = Pending
    /\ loadOwner = "none"
    /\ single = {}
    /\ refreshCalls = 0
    /\ initState = "done"
    /\ last = Event("step", "", TRUE)
    /\ dateFrom = getDefaultDateRange.start
    /\ dateTo = getDefaultDateRange.end
    /\ currentFilters = Filters(<<getDefaultDateRange.start>>,
                                <<getDefaultDateRange.end>>)
    /\ storage = <<>>
    /\ errorShown = FALSE
    /\ ViewOf(d)
    /\ rendered = <<Filters(<<getDefaultDateRange.start>>,
                            <<getDefaultDateRange.end>>)>>
    /\ DebounceIdle

\* queries start on a loader that has loaded nothing yet or on loaded stores
QueryInit ==
    \/ Init
    \/ \E d \in StoreStates : Loaded(d) /\ QueryIdle

\* a caller calls getData(key, filters) and keeps what it returns
GetData(key, filters) ==
    /\ returned = <<>>
    /\ query' = <<[key |-> key, filters |-> filters, before |-> data]>>
    /\ returned' = <<getData(key, filters)>>
    /\ last' = Event("getData", key, TRUE)
    /\ UNCHANGED <<data, metadata, loaderCtl, mutations, filterVars,
                   errorShown, rendered, debounceVars,
                   viewVars>>

\* the caller removes the last element of the array it was given
\* (result.pop()): an array is shared by everyone who holds it
CallerMutates ==
    /\ returned # <<>>
    /\ returned[1].kind = "array"
    /\ returned[1].value # <<>>
    /\ mutations < MaxMutations
    /\ mutations' = mutations + 1
    /\ LET popped == SubSeq(returned[1].value, 1, Len(returned[1].value) - 1)
       IN  /\ returned' = <<[returned[1] EXCEPT !.value = popped]>>
           /\ data' = IF returned[1].ref = "store"
                      THEN [data EXCEPT ![query[1].key] = popped]
                      ELSE data
    /\ last' = Event("step", "", TRUE)
    /\ UNCHANGED <<metadata, loaderCtl, query, filterVars, errorShown,
                   rendered, debounceVars,
                   viewVars>>

\* the caller lets go of the result
CallerDrops ==
    /\ returned # <<>>
    /\ query' = <<>>
    /\ returned' = <<>>
    /\ last' = Event("step", "", TRUE)
    /\ UNCHANGED <<data, metadata, loaderCtl, mutations, filterVars,
                   errorShown, rendered, debounceVars,
                   viewVars>>

QueryNext ==
    \/ \E key \in QueryKeys, filters \in QueryFilters : GetData(key, filters)
    \/ CallerMutates
    \/ CallerDrops

SpecQuery == QueryInit /\ [][QueryNext]_vars

(***************************************************************************)
(* main.js: the date filter controls and the debounced render              *)
(*                                                                         *)
(* Time is counted in ms and passes in steps of Delays. A timeout is the   *)
(* time left until it is due; its callback runs when it is due or later,   *)
(* as the event loop gets to it.                                           *)
(***************************************************************************)
Min(a, b) == IF a < b THEN a ELSE b

Max(a, b) == IF a > b THEN a ELSE b

\* the amounts of time that pass between two events
Delays == {100, 200}

\* the values a user leaves in a date input: empty, two dates 14 years
\* apart, and text that is no date
DateInputs == {"", "2024-01-10", "2010-01-01", "soon"}

\* dateFrom || null
OrNull(value) == IF value = "" THEN <<>> ELSE <<value>>

\* debounce without clearTimeout(t): the earlier timeout stays pending
debounceWithoutClear(pending, wait) == Append(pending, wait)

\* a call of the function that debounce(func, wait) returned, pending being
\* the timeouts it has pending: clearTimeout(t); t = setTimeout(..., wait)
debounce(pending, wait) == <<wait>>

\* this.debouncedRender(): the call is a trigger of the current burst when
\* it comes less than the wait after the trigger before it, and the first
\* trigger of a new burst otherwise
debouncedRender ==
    LET first == sinceTrigger = <<>> \/ sinceTrigger[1] >= chartUpdateDebounce
    IN  /\ timers' = debounce(timers, chartUpdateDebounce)
        /\ sinceTrigger' = <<0>>
        /\ burst' = IF first THEN [triggers |-> 1, runs |-> 0]
                    ELSE [burst EXCEPT
                             !.triggers = Min(MaxBurstCount, @ + 1)]
        /\ closed' = IF first /\ sinceTrigger # <<>>
                     THEN <<[runs |-> burst.runs, cancelled |-> timers # <<>>]>>
                     ELSE closed

\* the dashboard after init() has loaded the longest documents
FilterInit ==
    /\ Loaded([k \in SourceSet |-> Processed[k][RowPool(k)]])
    /\ QueryIdle

\* the user changes the value of a date input. The change handler calls
\* applyFilters 1000 ms after the latest change: that call is ApplyFilters.
UserEdits ==
    /\ \/ \E v \in DateInputs : dateFrom' = v /\ UNCHANGED dateTo
       \/ \E v \in DateInputs : dateTo' = v /\ UNCHANGED dateFrom
    /\ last' = Event("step", "", TRUE)
    /\ UNCHANGED <<data, metadata, loaderCtl, queryVars, currentFilters,
                   storage, errorShown, rendered, debounceVars,
                   viewVars>>

\* Dashboard.applyFilters(): the click on #apply-filters, or the call made
\* after a change of the inputs
ApplyFilters ==
    IF dateFrom # "" /\ dateTo # "" /\ ~validateDateRange(dateFrom, dateTo).valid
    THEN /\ errorShown' = TRUE
         /\ last' = [op |-> "applyFilters", before |-> currentFilters,
                     scheduled |-> FALSE]
         /\ UNCHANGED <<data, metadata, loaderCtl, queryVars, filterVars,
                        rendered, debounceVars,
                   viewVars>>
    ELSE /\ currentFilters' = Filters(OrNull(dateFrom), OrNull(dateTo))
         /\ storage' = <<Filters(OrNull(dateFrom), OrNull(dateTo))>>
         /\ debouncedRender
         /\ last' = [op |-> "applyFilters", before |-> currentFilters,
                     scheduled |-> TRUE]
         /\ UNCHANGED <<data, metadata, loaderCtl, queryVars, dateFrom, dateTo,
                        errorShown, rendered,
                   viewVars>>

\* Dashboard.resetFilters(), the click on #reset-filters, at the time
\* value now
ResetFiltersAt(now) ==
    /\ dateFrom' = getDefaultDateRangeAt(now).start
    /\ dateTo' = getDefaultDateRangeAt(now).end
    /\ currentFilters' = Filters(<<getDefaultDateRangeAt(now).start>>,
                                 <<getDefaultDateRangeAt(now).end>>)
    /\ storage' = <<>>
    /\ debouncedRender
    /\ last' = Event("step", "", TRUE)
    /\ UNCHANGED <<data, metadata, loaderCtl, queryVars, errorShown, rendered,
                   viewVars>>

ResetFilters == ResetFiltersAt(Now)

\* hideError(): the click on #error-close, or the timeout of showError
hideError ==
    /\ errorShown
    /\ errorShown' = FALSE
    /\ last' = Event("step", "", TRUE)
    /\ UNCHANGED <<data, metadata, loaderCtl, queryVars, filterVars, rendered,
                   debounceVars,
                   viewVars>>

\* time passes by d ms
Tick(d) ==
    /\ sinceTrigger # <<>>
    /\ timers' = [i \in 1..Len(timers) |-> Max(0, timers[i] - d)]
    /\ sinceTrigger' = <<Min(chartUpdateDebounce, sinceTrigger[1] + d)>>
    /\ last' = Event("step", "", TRUE)
    /\ UNCHANGED <<data, metadata, loaderCtl, queryVars, filterVars,
                   errorShown, rendered, burst, closed,
                   viewVars>>

\* the event loop runs the callback of a timeout of debouncedRender that is
\* due: renderCurrentPage()
TimerFires(i) ==
    /\ timers[i] = 0
    /\ timers' = SubSeq(timers, 1, i - 1) \o SubSeq(timers, i + 1, Len(timers))
    /\ renderCurrentPage(data, shown, Manager(charts, liveCharts))
    /\ burst' = [burst EXCEPT !.runs = Min(MaxBurstCount, @ + 1)]
    /\ last' = [op |-> "render", since |-> sinceTrigger[1]]
    /\ UNCHANGED <<data, metadata, loaderCtl, queryVars, filterVars,
                   errorShown, sinceTrigger, closed, currentPage, navigating>>

FilterNext ==
    \/ UserEdits
    \/ ApplyFilters
    \/ ResetFilters
    \/ hideError
    \/ \E d \in Delays : Tick(d)
    \/ \E i \in 1..Len(timers) : TimerFires(i)

SpecFilters == FilterInit /\ [][FilterNext]_vars

\* the page is loaded anew: the module is evaluated again, `new
\* DataLoader()` and `new Dashboard()`, and of the state of the page before
\* only localStorage is left
Reload ==
    /\ initState # "new"
    /\ data' = <<>>
    /\ metadata' = <<>>
    /\ isLoading' = FALSE
    /\ results' = Pending
    /\ loadOwner' = "none"
    /\ single' = {}
    /\ refreshCalls' = 0
    /\ initState' = "new"
    /\ last' = Event("constructed", "", TRUE)
    /\ dateFrom' = ""
    /\ dateTo' = ""
    /\ currentFilters' = <<>>
    /\ errorShown' = FALSE
    /\ rendered' = <<>>
    /\ currentPage' = "inbound"
    /\ shown' = <<>>
    /\ navigating' = FALSE
    /\ charts' = NoCharts.charts
    /\ liveCharts' = NoCharts.live
    /\ query' = <<>>
    /\ returned' = <<>>
    /\ mutations' = 0
    /\ timers' = <<>>
    /\ sinceTrigger' = <<>>
    /\ burst' = [triggers |-> 0, runs |-> 0]
    /\ closed' = <<>>
    /\ UNCHANGED storage

\* moments at which init() or resetFilters() may run: Now, and half past
\* midnight, half past one and noon of 25 to 28 October 2026, the days from
\* the end of summer time on
PageTimes ==
    {Now} \cup {NewDate(2026, 9, d, h, 30, 0) : d \in 25..28, h \in {0, 1, 12}}

\* the ways the active filter is set, over the visits of one browser to the
\* page: init() restores the default or the persisted range, the controls
\* (wired by init()) apply and reset it. Neither the fetches of loadAll nor
\* the timeouts of the debounced render touch the filter: they are left out
SessionNext ==
    \/ \E now \in PageTimes : DashboardInitAt(now)
    \/ initState # "new" /\ UserEdits
    \/ initState # "new" /\ ApplyFilters
    \/ \E now \in PageTimes : initState # "new" /\ ResetFiltersAt(now)
    \/ Reload

SpecSessions == Init /\ [][SessionNext]_vars

(***************************************************************************)
(* renderers.js: PageRenderer                                              *)
(*                                                                         *)
(* A JavaScript number that a KPI holds is the fraction n/d in lowest      *)
(* terms with d > 0, or NaN, or Infinity; rounding of the floating-point   *)
(* division is left out.                                                   *)
(***************************************************************************)
Abs(x) == IF x < 0 THEN 0 - x ELSE x

RECURSIVE GCD(_, _)
GCD(a, b) == IF b = 0 THEN a ELSE GCD(b, a % b)

\* the number n/d, d # 0
Frac(n, d) ==
    LET g == GCD(Abs(n), Abs(d))
        sg == IF d < 0 THEN 0 - 1 ELSE 1
    IN  [kind |-> "number", n |-> sg * (n \div g), d |-> sg * (d \div g)]

Zero == Frac(0, 1)

NaN == [kind |-> "NaN", n |-> 0, d |-> 0]

Infinity == [kind |-> "Infinity", n |-> 0, d |-> 0]

\* n / d on numbers: 0/0 is NaN and x/0 is infinite
Quot(n, d) ==
    IF d # 0 THEN Frac(n, d) ELSE IF n = 0 THEN NaN ELSE Infinity

\* a || b on numbers: 0 and NaN are falsy
OrElse(a, b) == IF a.kind = "NaN" \/ (a.kind = "number" /\ a.n = 0) THEN b ELSE a

\* the sum of the integers of a sequence
Sum(seq) ==
    LET F[i \in 0..Len(seq)] == IF i = 0 THEN 0 ELSE F[i - 1] + seq[i]
    IN  F[Len(seq)]

RECURSIVE IntString(_)
IntString(n) ==
    (IF n < 10 THEN "" ELSE IntString(n \div 10))
        \o SubSeq("0123456789", (n % 10) + 1, (n % 10) + 1)

\* String(v) of the number v held in hundredths
NumberString(v) ==
    LET a == Abs(v)
        f == Pad(a % 100, 2)
    IN  (IF v < 0 THEN "-" ELSE "") \o IntString(a \div 100)
            \o (IF a % 100 = 0 THEN ""
                ELSE IF Ch(f, 2) = "0" THEN "." \o Ch(f, 1) ELSE "." \o f)

\* cleanNumber(r[field]) on a processed record, in hundredths: the field is
\* a number that processRow derived, a column of the CSV, or undefined
cleanNumberOfProp(rec, field) ==
    IF field \in DOMAIN rec.numeric
    THEN cleanNumberStr(NumberString(rec.numeric[field]))
    ELSE cleanNumber(Prop(rec, field))

\* CONFIG.statusPatterns.abandoned
abandonedPatterns ==
    <<"abandon", "missed", "no answer", "noanswer", "timeout", "hangup">>

\* isAbandoned that compares the status as it is written
isAbandonedCaseSensitive(status) ==
    /\ status # ""
    /\ \E i \in 1..Len(abandonedPatterns) :
          Includes(status, abandonedPatterns[i])

\* isAbandoned(status)
isAbandoned(status) ==
    /\ status # ""
    /\ \E i \in 1..Len(abandonedPatterns) :
          Includes(ToLowerCase(status), abandonedPatterns[i])

\* isAbandoned(r.Disposition || '')
abandonedRecord(r) ==
    isAbandoned(IF Truthy(Prop(r, "Disposition"))
                THEN Prop(r, "Disposition")[1] ELSE "")

\* r.isConnected as a condition: undefined is falsy
connectedRecord(r) ==
    "isConnected" \in DOMAIN r.flags /\ r.flags["isConnected"]

\* PageRenderer.avg(data, field)
avg(recs, field) ==
    Only({IF Len(nums) = 0 THEN Zero ELSE Quot(Sum(nums), Len(nums) * 100) :
             nums \in {SelectSeq([i \in 1..Len(recs) |->
                                     cleanNumberOfProp(recs[i], field)],
                                 LAMBDA n : n >= 0)}})

\* (part / total) * 100 without the test of the denominator
percentageUnguarded(part, total) == Quot(part * 100, total)

\* total > 0 ? (part / total) * 100 : 0
percentage(part, total) ==
    IF total > 0 THEN Quot(part * 100, total) ELSE Zero

\* the records of a value getData returned for a source (always an array)
Records(v) == IF v.kind = "array" THEN v.value ELSE <<>>

\* data.reduce((s, r) => s + cleanNumber(r[field]), 0), in hundredths
sumOf(recs, field) ==
    Sum([i \in 1..Len(recs) |-> cleanNumberOfProp(recs[i], field)])

\* calculateKPIs for the inbound page
inboundKPIs(recs) ==
    LET total     == Len(recs)
        abandoned == Len(SelectSeq(recs, abandonedRecord))
    IN  [totalCalls |-> Frac(total, 1),
         abandonRate |-> percentage(abandoned, total),
         avgHandleTime |->
             OrElse(OrElse(avg(recs, "duration_numeric"),
                           avg(recs, "Talk Time")), Zero),
         avgWaitTime |->
             OrElse(OrElse(avg(recs, "waitTime_numeric"),
                           avg(recs, "Wait Time")), Zero)]

\* outboundKPIs that takes the connect rate from the answered and total
\* counts of the aggregate outbound records
outboundKPIsFromAggregate(outboundCallsData, connectRateData) ==
    LET totalOutboundCalls == sumOf(outboundCallsData, "Outbound Calls")
        duration == sumOf(outboundCallsData, "TotalCallDuration_numeric")
    IN  [totalCalls |-> Frac(totalOutboundCalls, 100),
         connectRate |->
             percentage(sumOf(outboundCallsData, "AnsweredCalls_numeric"),
                        sumOf(outboundCallsData, "TotalCalls_numeric")),
         avgTalkTime |-> IF totalOutboundCalls > 0
                         THEN Quot(duration, totalOutboundCalls) ELSE Zero]

\* calculateKPIs for the outbound page on the records of the two reads
outboundKPIs(outboundCallsData, connectRateData) ==
    LET totalOutboundCalls == sumOf(outboundCallsData, "Outbound Calls")
        totalAttempts      == Len(connectRateData)
        connectedCalls     == Len(SelectSeq(connectRateData, connectedRecord))
        duration == sumOf(outboundCallsData, "TotalCallDuration_numeric")
    IN  [totalCalls |-> Frac(totalOutboundCalls, 100),
         connectRate |-> percentage(connectedCalls, totalAttempts),
         avgTalkTime |-> IF totalOutboundCalls > 0
                         THEN Quot(duration, totalOutboundCalls) ELSE Zero]

\* fcrKPIs that counts every inbound record as connected
fcrKPIsCountingAbandoned(recs, inboundData, outboundConnectData) ==
    LET totalCases == sumOf(recs, "Count_numeric")
        totalConnectedCalls ==
            Len(inboundData) + Len(SelectSeq(outboundConnectData, connectedRecord))
    IN  [totalCases |-> Frac(totalCases, 100),
         fcrPercentage |-> percentage(totalCases, totalConnectedCalls * 100)]

\* calculateKPIs for the fcr page on the page's records and the two reads
fcrKPIs(recs, inboundData, outboundConnectData) ==
    LET totalCases == sumOf(recs, "Count_numeric")
        totalInboundConnected ==
            Len(SelectSeq(inboundData, LAMBDA r : ~abandonedRecord(r)))
        totalOutboundConnected ==
            Len(SelectSeq(outboundConnectData, connectedRecord))
        totalConnectedCalls == totalInboundConnected + totalOutboundConnected
    IN  [totalCases |-> Frac(totalCases, 100),
         fcrPercentage |-> percentage(totalCases, totalConnectedCalls * 100)]

\* kpiReads that reads the other sources without the filters
kpiReadsUnfiltered(pageKey, recs) ==
    CASE pageKey = "inbound" -> ("inbound" :> recs)
      [] pageKey = "outbound" ->
           ("outbound" :> Records(StoreOrEmpty("outbound")))
        @@ ("outbound_connectrate" :>
                Records(StoreOrEmpty("outbound_connectrate")))
      [] pageKey = "fcr" ->
           ("fcr" :> recs)
        @@ ("inbound" :> Records(StoreOrEmpty("inbound")))
        @@ ("outbound_connectrate" :>
                Records(StoreOrEmpty("outbound_connectrate")))
      [] OTHER -> <<>>

\* the record sets that calculateKPIs(pageKey, data) reads, by source:
\* data is what renderPage passed, the others are read with
\* dataLoader.getData(key, this.currentFilters)
kpiReads(pageKey, recs) ==
    [key \in CASE pageKey = "inbound" -> {"inbound"}
                [] pageKey = "outbound" -> {"outbound", "outbound_connectrate"}
                [] pageKey = "fcr" -> {"fcr", "inbound", "outbound_connectrate"}
                [] OTHER -> {} |->
        IF key = pageKey /\ pageKey # "outbound" THEN recs
        ELSE Records(getData(key, rendererFilters))]

\* calculateKPIs(pageKey, data) given the record sets it reads
kpisOf(pageKey, reads) ==
    CASE pageKey = "inbound" -> inboundKPIs(reads["inbound"])
      [] pageKey = "outbound" ->
           outboundKPIs(reads["outbound"], reads["outbound_connectrate"])
      [] pageKey = "fcr" ->
           fcrKPIs(reads["fcr"], reads["inbound"],
                   reads["outbound_connectrate"])
      [] OTHER -> <<>>

\* the pages of the dashboard
Pages == {"inbound", "outbound", "fcr"}

\* what renderPage(pageKey) shows, given the records getData returned for
\* the page and the record sets calculateKPIs reads: the no-data template
\* for an empty result, else the KPIs
pageShown(pageKey, recs, reads) ==
    IF Len(recs) = 0
    THEN [op |-> "renderPage", key |-> pageKey, filters |-> rendererFilters,
          reads |-> <<>>, kpis |-> <<>>]
    ELSE [op |-> "renderPage", key |-> pageKey, filters |-> rendererFilters,
          reads |-> reads, kpis |-> <<kpisOf(pageKey, reads)>>]

\* PageRenderer.renderPage(pageKey, containerId), after the dashboard has
\* passed its filters with updateFilters
RenderPage(pageKey) ==
    /\ \E recs \in {Records(getData(pageKey, rendererFilters))} :
          \E reads \in {IF Len(recs) = 0 THEN <<>>
                        ELSE kpiReads(pageKey, recs)} :
             /\ last' = pageShown(pageKey, recs, reads)
             /\ \E m \in {IF Len(recs) = 0 THEN Manager(charts, liveCharts)
                           ELSE createCharts(Manager(charts, liveCharts),
                                             PageCharts(pageKey))} :
                   charts' = m.charts /\ liveCharts' = m.live
    /\ UNCHANGED <<data, metadata, loaderCtl, queryVars, filterVars,
                   errorShown, rendered, debounceVars, currentPage, shown,
                   navigating>>

\* scenario A: an inbound export of 10 rows, 2 of them abandoned
ScenarioA ==
    [i \in 1..10 |->
        InboundRow("a" \o IntString(i), "0" \o IntString((i % 9) + 1) \o "/01/2024 10:00",
                   IF i % 2 = 0 THEN "Ann" ELSE "Bob",
                   IF i \in {3, 7} THEN "Abandoned" ELSE "Answered",
                   IntString(60 + i), IntString(i))]

\* an aggregate outbound export that carries the Outbound Calls column
OutboundCallsExport ==
    << OutboundRow("05/01/2024", "Ann", "12", "7", "4", "1", "1,250")
           \o << <<"Outbound Calls", "10">> >>,
       OutboundRow("21/01/2024", "Bob", "18", "8", "8", "2", "1,750")
           \o << <<"Outbound Calls", "15">> >>,
       OutboundRow("01/31/2024", "Cid", "9", "4", "4", "1", "900")
           \o << <<"Outbound Calls", "9">> >> >>

\* the stores the pages are rendered from: those of StoreStates, the stores
\* of scenario A and of the export with Outbound Calls, and stores that
\* hold one source only (a refresh(key) that settled on cleared stores)
KPIStores ==
    StoreStates
        \cup {[k \in keys |->
                  processData(IF keys = SourceSet /\ k = "inbound"
                              THEN ScenarioA
                              ELSE IF keys = SourceSet /\ k = "outbound"
                              THEN OutboundCallsExport
                              ELSE RowPool(k), k)] :
                 keys \in {SourceSet} \cup {{f} : f \in Pages}}

\* the date ranges the filter holds after applyFilters or resetFilters:
\* the default one, no dates, and ranges that hold some or none of the
\* records
KPIRanges ==
    { <<getDefaultDateRange.start, getDefaultDateRange.end>>,
      <<"", "">>,
      <<"2024-01-01", "2024-01-10">>,
      <<"2024-01-10", "2024-01-31">>,
      <<"2024-01-31", "2024-01-31">> }

\* the dashboard showing the stores d under the filter from..to, all
\* timers run
Displayed(d, from, to) ==
    /\ data = d
    /\ metadata = [k \in DOMAIN d |-> metadataOf(d[k])]
    /\ isLoading = FALSE
    /\ results = Pending
    /\ loadOwner = "none"
    /\ single = {}
    /\ refreshCalls = 0
    /\ initState = "done"
    /\ last = Event("step", "", TRUE)
    /\ dateFrom = from
    /\ dateTo = to
    /\ currentFilters = Filters(OrNull(from), OrNull(to))
    /\ storage = <<Filters(OrNull(from), OrNull(to))>>
    /\ errorShown = FALSE
    /\ ViewOf(d)
    /\ rendered = <<Filters(OrNull(from), OrNull(to))>>
    /\ DebounceIdle
    /\ QueryIdle

KPIInit == \E d \in KPIStores, r \in KPIRanges : Displayed(d, r[1], r[2])

KPINext == \E pageKey \in Pages : RenderPage(pageKey)

SpecKPI == KPIInit /\ [][KPINext]_vars

(***************************************************************************)
(* Header resolution: findBestMatch on the headers of a row                *)
(***************************************************************************)
MaxHeaders == 3     \* headers of a row that is resolved
MaxCandidates == 2  \* candidates of a logical field

\* column names as exports spell them; "#" normalizes to the empty text
HeaderPool ==
    <<"Queue Time", "Wait Time", "wait_time", " AGENT-name ", "Call ID", "#">>

\* candidate names as a field mapping lists them
CandidatePool == <<"wait time", "queue_time", "Agent Name", "Duration">>

\* the sequences of at most n distinct elements of the sequence pool
Lists(pool, n) ==
    LET Ext(S) == {Append(q, pool[i]) :
                      q \in S, i \in 1..Len(pool)}
        Distinct(q) == \A i, j \in 1..Len(q) : i # j => q[i] # q[j]
        L[k \in 0..n] ==
            IF k = 0 THEN {<<>>}
            ELSE L[k - 1] \cup {q \in Ext(L[k - 1]) : Distinct(q)}
    IN  L[n]

\* a call findBestMatch(headers, candidates) that has not returned yet
ResolveCall(headers, candidates) ==
    [op |-> "findBestMatch", headers |-> headers, candidates |-> candidates,
     done |-> FALSE, hit |-> <<>>]

\* the loader as constructed, about to resolve a field on a row's headers
ResolveInit ==
    /\ \E h \in Lists(HeaderPool, MaxHeaders),
          c \in Lists(CandidatePool, MaxCandidates) :
          last = ResolveCall(h, c)
    /\ data = <<>>
    /\ metadata = <<>>
    /\ isLoading = FALSE
    /\ results = Pending
    /\ loadOwner = "none"
    /\ single = {}
    /\ refreshCalls = 0
    /\ initState = "new"
    /\ dateFrom = ""
    /\ dateTo = ""
    /\ currentFilters = <<>>
    /\ storage = <<>>
    /\ errorShown = FALSE
    /\ rendered = <<>>
    /\ ViewIdle
    /\ QueryIdle
    /\ DebounceIdle

\* findBestMatch(headers, candidates) runs and returns
Resolve ==
    /\ last.op = "findBestMatch"
    /\ ~last.done
    /\ last' = [last EXCEPT !.done = TRUE,
                            !.hit = findBestMatch(last.headers, last.candidates)]
    /\ UNCHANGED <<data, metadata, loaderCtl, queryVars, filterVars,
                   errorShown, rendered, debounceVars,
                   viewVars>>

ResolveNext == Resolve

SpecResolve == ResolveInit /\ [][ResolveNext]_vars

(***************************************************************************)
(* Row processing of the loader version of part_001                        *)
(***************************************************************************)
\* rows a document may hold for that version: those of RowPool, a row whose
\* year lies beyond the range of Date, a row with no month, and a call
\* without an identifier
RowPoolP1(key) ==
    CASE key = "fcr" ->
           << RowPool(key)[1], FcrRow("999999", "1", "1", "7"),
              RowPool(key)[2], FcrRow("2024", "", "5", "1") >>
               \o SubSeq(RowPool(key), 3, Len(RowPool(key)))
      [] key = "outbound_connectrate" ->
           RowPool(key)
               \o << ConnectRow("", "06/01/2024 09:00", "Outbound", "04:00", "Cid") >>
      [] OTHER -> RowPool(key)

\* every document made of rows of that pool
DocumentsP1(key) ==
    {Pick(RowPoolP1(key), S) : S \in SUBSET (1..Len(RowPoolP1(key)))}

\* processData of part_001 on every document of every source, computed once
ProcessedP1 ==
    [key \in SourceSet |->
        [rows \in DocumentsP1(key) |-> processDataP1(rows, key)]]

\* a call processData(rows, key) that has not returned yet
ProcessCall(key, rows) ==
    [op |-> "processData", key |-> key, rows |-> rows, done |-> FALSE,
     threw |-> FALSE, out |-> <<>>]

\* the loader as constructed, about to process a parsed document
RowsInit ==
    /\ \E key \in SourceSet :
          \E rows \in DocumentsP1(key) : last = ProcessCall(key, rows)
    /\ data = <<>>
    /\ metadata = <<>>
    /\ isLoading = FALSE
    /\ results = Pending
    /\ loadOwner = "none"
    /\ single = {}
    /\ refreshCalls = 0
    /\ initState = "new"
    /\ dateFrom = ""
    /\ dateTo = ""
    /\ currentFilters = <<>>
    /\ storage = <<>>
    /\ errorShown = FALSE
    /\ rendered = <<>>
    /\ ViewIdle
    /\ QueryIdle
    /\ DebounceIdle

\* processData(rows, key) runs to its end
ProcessData ==
    /\ last.op = "processData"
    /\ ~last.done
    /\ \E res \in {ProcessedP1[last.key][last.rows]} :
          last' = [last EXCEPT !.done = TRUE, !.threw = res.threw,
                               !.out = res.out]
    /\ UNCHANGED <<data, metadata, loaderCtl, queryVars, filterVars,
                   errorShown, rendered, debounceVars,
                   viewVars>>

RowsNext == ProcessData

SpecRows == RowsInit /\ [][RowsNext]_vars

\* processData(rows, key) of the loader the dashboard runs with, on the
\* same documents, runs to its end
ProcessDataStored ==
    /\ last.op = "processData"
    /\ ~last.done
    /\ \E out \in {processData(last.rows, last.key)} :
          last' = [last EXCEPT !.done = TRUE, !.out = out]
    /\ UNCHANGED <<data, metadata, loaderCtl, queryVars, filterVars,
                   errorShown, rendered, debounceVars, viewVars>>

StoredNext == ProcessDataStored

SpecStored == RowsInit /\ [][StoredNext]_vars

Next ==
    \/ DashboardInit
    \/ \E key \in SourceSet : TaskSettles(key)
    \/ \E key \in SourceSet : LoadAllCompletes(key)
    \/ RefreshDataLoads
    \/ RefreshDataSkips
    \/ \E key \in SourceSet : RefreshStart(key)
    \/ \E key \in SourceSet : RefreshSettles(key)

Spec == Init /\ [][Next]_vars

\* every fetch settles: the task of a fetch in flight goes on, be it the
\* last task of its loadAll or not
FetchesSettle ==
    /\ WF_vars(\E key \in SourceSet : TaskSettles(key))
    /\ WF_vars(\E key \in SourceSet : LoadAllCompletes(key))

\* Dashboard.navigateToPage(page) up to
\* `await new Promise(resolve => requestAnimationFrame(resolve))`; the
\* navigation links are wired by init()
NavigateToPage(page) ==
    /\ initState # "new"
    /\ page # currentPage
    /\ currentPage' = page
    /\ navigating' = TRUE
    /\ last' = Event("step", "", TRUE)
    /\ UNCHANGED <<data, metadata, loaderCtl, queryVars, filterVars,
                   errorShown, rendered, debounceVars, shown, charts,
                   liveCharts>>

\* the animation frame comes: navigateToPage goes on with
\* renderCurrentPage()
NavigationRenders ==
    /\ navigating
    /\ navigating' = FALSE
    /\ renderCurrentPage(data, shown, Manager(charts, liveCharts))
    /\ last' = Event("step", "", TRUE)
    /\ UNCHANGED <<data, metadata, loaderCtl, queryVars, filterVars,
                   errorShown, debounceVars, currentPage>>

\* the same step when the containers or Chart.js fail some createChart
\* calls of the renderer, or the renderer throws between two of them; a
\* renderer that got no record makes no call
NavigationRendersMeeting ==
    /\ navigating
    /\ navigating' = FALSE
    /\ currentPage \in DOMAIN data
    /\ rendered' = <<currentFilters>>
    /\ shown' = Charts(currentPage, data)
    /\ \E outcomes \in
              IF PageHasData(data, currentPage, rendererFilters)
              THEN RenderOutcomes(PageCharts(currentPage)) ELSE {<<>>} :
          /\ \E m \in {createChartsMeeting(Manager(charts, liveCharts),
                                            PageCharts(currentPage),
                                            outcomes)} :
                charts' = m.charts /\ liveCharts' = m.live
          /\ last' = [op |-> "renderMeeting",
                      replaced |->
                          \E i \in 1..Len(outcomes) :
                              /\ outcomes[i] = "created"
                              /\ PageCharts(currentPage)[i] \in DOMAIN charts,
                      failed |-> \E i \in 1..Len(outcomes) :
                                     outcomes[i] # "created"]
    /\ UNCHANGED <<data, metadata, loaderCtl, queryVars, filterVars,
                   errorShown, debounceVars, currentPage>>

\* the browser delivers the animation frame a navigation waits for
FramesCome == WF_vars(NavigationRenders)

\* the steps of the load sequences: init and refreshData with the fetches
\* of their loadAll, and the navigations between the pages (refresh(key)
\* touches neither isLoading nor the tasks of a loadAll)
LiveNext ==
    \/ DashboardInit
    \/ \E key \in SourceSet : TaskSettles(key)
    \/ \E key \in SourceSet : LoadAllCompletes(key)
    \/ RefreshDataLoads
    \/ RefreshDataSkips
    \/ \E page \in Pages : NavigateToPage(page)
    \/ NavigationRenders

SpecLive == Init /\ [][LiveNext]_vars /\ FetchesSettle /\ FramesCome

\* the same steps where the createChart calls of a navigation's render may
\* fail
ChartsNext ==
    \/ LiveNext
    \/ NavigationRendersMeeting

SpecCharts == Init /\ [][ChartsNext]_vars

(***************************************************************************)
(* Properties of the loader                                                *)
(***************************************************************************)
\* a loadAll has just returned to its caller
LoadAllReturned == last.op \in {"initDone", "refreshDataDone"}

\* the store of key holds nothing (no entry, or the empty array)
StoreEmpty(key) == key \notin DOMAIN data \/ data[key] = <<>>

\* C1: every record held in a source's store passes that source's row
\* validator; a record that fails it is never stored
C1_StoredRowsValid ==
    \A key \in DOMAIN data :
        \A i \in 1..Len(data[key]) : isValidRow(data[key][i], key)

\* a load has stored records of a document that also held rows the
\* validator rejects
C1_Witness ==
    /\ LoadAllReturned
    /\ \E key \in SourceSet :
          /\ results[key][1].error = <<>>
          /\ data[key] # <<>>
          /\ Len(data[key]) < Len(results[key][1].resp.rows)

\* C2: when the fetch or parse of a source fails during loadAll or during
\* refresh(key), that source's store is empty once the load has completed
C2_FailedLoadLeavesStoreEmpty ==
    /\ LoadAllReturned =>
          \A key \in SourceSet :
              results[key][1].error # <<>> => StoreEmpty(key)
    /\ (last.op = "refreshDone" /\ ~last.ok) => StoreEmpty(last.key)

\* C3: when loadAll returns, every source whose own fetch and parse
\* succeeded holds its processed records, whatever the other sources did
C3_OtherSourcesLoad ==
    LoadAllReturned =>
        \A key \in SourceSet :
            results[key][1].error = <<>> =>
                /\ key \in DOMAIN data
                /\ data[key] = processData(results[key][1].resp.rows, key)

\* a loadAll returned in which one source failed and another one stored
\* records
C3_Witness ==
    /\ LoadAllReturned
    /\ \E key \in SourceSet : results[key][1].error # <<>>
    /\ \E key \in SourceSet :
          results[key][1].error = <<>> /\ ~StoreEmpty(key)

\* C4: when an invocation of refreshData completes, every configured source
\* has a store entry, loaded by a load sequence that started after its clear
C4_RefreshDataReloads ==
    last.op \in {"refreshDataDone", "refreshDataSkipped"} =>
        \A key \in SourceSet : key \in DOMAIN data

(***************************************************************************)
(* Properties of the queries                                               *)
(***************************************************************************)
\* getData has just returned to its caller
JustReturned == last.op = "getData"

\* the store of the queried key as the call found it
StoreBefore ==
    IF query[1].key \in DOMAIN query[1].before
    THEN query[1].before[query[1].key] ELSE <<>>

\* the filter carries a start and an end date that pass validateDateRange
ValidRange(filters) ==
    /\ Truthy(filters.startDate)
    /\ Truthy(filters.endDate)
    /\ validateDateRange(filters.startDate[1], filters.endDate[1]).valid

\* the record's parsed date lies between the start date and the end of the
\* local day of the end date
InFilterRange(rec, filters) ==
    InDateRange(rec, parseDate(filters.startDate)[1],
                EndOfLocalDay(parseDate(filters.endDate)[1]))

\* C5 as stated: a valid date range applied to a store that holds a parsed
\* date returns no record without a parsed date and none outside the range
C5_DateFilterExcludesOutOfRange ==
    (JustReturned /\ ValidRange(query[1].filters) /\ hasAnyDate(StoreBefore)) =>
        /\ returned[1].kind = "array"
        /\ \A i \in 1..Len(returned[1].value) :
               InFilterRange(returned[1].value[i], query[1].filters)

\* C5: a valid date range applied to a store that holds a parsed date
\* returns no record without a parsed date and none outside the range,
\* unless the source is not inbound and no stored record lies in the range:
\* then the result is drawn from the whole store
C5_DateFilterExcludesUnlessNoneMatch ==
    (JustReturned /\ ValidRange(query[1].filters) /\ hasAnyDate(StoreBefore)) =>
        /\ returned[1].kind = "array"
        /\ \/ \A i \in 1..Len(returned[1].value) :
                 InFilterRange(returned[1].value[i], query[1].filters)
           \/ /\ query[1].key # "inbound"
              /\ \A j \in 1..Len(StoreBefore) :
                     ~InFilterRange(StoreBefore[j], query[1].filters)
              /\ \A i \in 1..Len(returned[1].value) :
                     \E j \in 1..Len(StoreBefore) :
                         returned[1].value[i] = StoreBefore[j]

\* a date range has kept some records of a store and removed both a record
\* without a parsed date and a dated record outside the range
C5_Witness ==
    /\ JustReturned
    /\ ValidRange(query[1].filters)
    /\ returned[1].kind = "array"
    /\ returned[1].value # <<>>
    /\ \A i \in 1..Len(returned[1].value) :
           InFilterRange(returned[1].value[i], query[1].filters)
    /\ \E j \in 1..Len(StoreBefore) : StoreBefore[j].date_parsed = <<>>
    /\ \E j \in 1..Len(StoreBefore) :
           /\ StoreBefore[j].date_parsed # <<>>
           /\ ~InFilterRange(StoreBefore[j], query[1].filters)

\* the filters without their dates
WithoutDates(filters) ==
    [filters EXCEPT !.startDate = <<>>, !.endDate = <<>>]

\* C6: with a start and an end date given and no stored record holding a
\* parsed date, the date range is a no-op: getData returns what it returns
\* without the dates, which is the whole store, in order, when no agent or
\* status filter is set
C6_UndatedStoreNotFiltered ==
    (/\ JustReturned
     /\ Truthy(query[1].filters.startDate)
     /\ Truthy(query[1].filters.endDate)
     /\ query[1].key \in DOMAIN query[1].before
     /\ ~hasAnyDate(StoreBefore)) =>
        /\ returned[1].kind = "array"
        /\ returned[1].value =
               getData(query[1].key, WithoutDates(query[1].filters)).value
        /\ (~Truthy(query[1].filters.agent) /\ ~Truthy(query[1].filters.status))
               => returned[1].value = StoreBefore

\* a parsed date range was applied to a store with records, none of them
\* dated, and all of them came back
C6_Witness ==
    /\ JustReturned
    /\ ValidRange(query[1].filters)
    /\ StoreBefore # <<>>
    /\ ~hasAnyDate(StoreBefore)
    /\ returned[1].kind = "array"
    /\ returned[1].value = StoreBefore

\* C7: while a caller holds a result of getData, whatever it does to it,
\* every store is as the call found it
C7_QueryLeavesStoresIntact ==
    query # <<>> => data = query[1].before

\* C8: getData on a key that is no configured source, or whose store holds
\* nothing, returns an empty array and does not throw
C8_NothingLoadedYieldsEmpty ==
    (JustReturned /\ (query[1].key \notin SourceSet \/ StoreBefore = <<>>)) =>
        /\ returned[1].kind = "array"
        /\ returned[1].value = <<>>

(***************************************************************************)
(* Properties of the filter controls                                       *)
(***************************************************************************)
\* the date range in the inputs fails validation: a date that is given does
\* not parse, or both are given and validateDateRange rejects them
FailsValidation(from, to) ==
    \/ from # "" /\ parseDate(<<from>>) = <<>>
    \/ to # "" /\ parseDate(<<to>>) = <<>>
    \/ from # "" /\ to # "" /\ ~validateDateRange(from, to).valid

\* C9: applyFilters on a date range that fails validation leaves the active
\* filters as they were, schedules no render and shows an error
C9_InvalidRangeRejected ==
    (last.op = "applyFilters" /\ FailsValidation(dateFrom, dateTo)) =>
        /\ currentFilters = last.before
        /\ ~last.scheduled
        /\ errorShown

\* C10 as stated: the debounced render runs only once the wait has passed
\* since the latest trigger, and exactly once for every burst
C10_BurstRendersExactlyOnce ==
    /\ last.op = "render" => last.since >= chartUpdateDebounce
    /\ burst.runs <= 1
    /\ closed # <<>> => closed[1].runs = 1

\* C10: the debounced render runs only once the wait has passed since the
\* latest trigger and at most once for a burst; until it has run, one
\* timeout is pending for the burst; a burst ends without a render only if
\* the first trigger of the next burst cancelled its timeout, which was
\* due and had not run yet
C10_BurstRendersAtMostOnce ==
    /\ last.op = "render" => last.since >= chartUpdateDebounce
    /\ burst.runs <= 1
    /\ burst.triggers > 0 => Len(timers) = 1 - burst.runs
    /\ closed # <<>> =>
          \/ closed[1].runs = 1 /\ ~closed[1].cancelled
          \/ closed[1].runs = 0 /\ closed[1].cancelled

\* the render has run, once, for a burst of several triggers
C10_Witness ==
    /\ last.op = "render"
    /\ burst.triggers >= 2
    /\ burst.runs = 1

(***************************************************************************)
(* Properties of the KPIs                                                  *)
(***************************************************************************)
\* renderPage has just computed the KPIs of the page key
KPIsShown(key) == last.op = "renderPage" /\ last.key = key /\ last.kpis # <<>>

\* the store of a source, empty when it has no entry
StoreOf(key) == IF key \in DOMAIN data THEN data[key] ELSE <<>>

\* the record r read from source key is counted by the fcr KPIs: every fcr
\* record in totalCases, the inbound records not abandoned, the
\* connect-rate records that are connected
CountedForFcr(key, r) ==
    CASE key = "fcr" -> TRUE
      [] key = "inbound" -> ~abandonedRecord(r)
      [] key = "outbound_connectrate" -> connectedRecord(r)

\* C11 as stated: the fcr KPIs read the three sources with the same
\* filters, and under a valid date range every record they count lies
\* inside the range
C11_FcrCountsOnlyInRange ==
    KPIsShown("fcr") =>
        \A k \in {"fcr", "inbound", "outbound_connectrate"} :
            /\ last.reads[k] = Records(getData(k, last.filters))
            /\ ValidRange(last.filters) =>
                   \A i \in 1..Len(last.reads[k]) :
                       CountedForFcr(k, last.reads[k][i]) =>
                           InFilterRange(last.reads[k][i], last.filters)

\* C11: the fcr KPIs read the three sources with the same filters, and
\* under a valid date range every record they count lies inside the range,
\* except for a source whose store holds no record inside the range
C11_FcrCountsInRangeUnlessNoneMatch ==
    KPIsShown("fcr") =>
        \A k \in {"fcr", "inbound", "outbound_connectrate"} :
            /\ last.reads[k] = Records(getData(k, last.filters))
            /\ ValidRange(last.filters) =>
                   \/ \A i \in 1..Len(last.reads[k]) :
                          CountedForFcr(k, last.reads[k][i]) =>
                              InFilterRange(last.reads[k][i], last.filters)
                   \/ \A j \in 1..Len(StoreOf(k)) :
                          ~InFilterRange(StoreOf(k)[j], last.filters)

\* the fcr KPIs were computed under a valid date range that removed a
\* record from each of the three stores and left a counted record of each
C11_Witness ==
    /\ KPIsShown("fcr")
    /\ ValidRange(last.filters)
    /\ \A k \in {"fcr", "inbound", "outbound_connectrate"} :
          /\ \E i \in 1..Len(last.reads[k]) :
                 CountedForFcr(k, last.reads[k][i])
          /\ \A i \in 1..Len(last.reads[k]) :
                 InFilterRange(last.reads[k][i], last.filters)
          /\ \E j \in 1..Len(StoreOf(k)) :
                 /\ StoreOf(k)[j].date_parsed # <<>>
                 /\ ~InFilterRange(StoreOf(k)[j], last.filters)

\* the number of records of recs that satisfy Test
CountOf(recs, Test(_)) == Cardinality({i \in 1..Len(recs) : Test(recs[i])})

\* the sum, in hundredths, of the derived numeric field over recs
TotalOf(recs, field) ==
    Sum([i \in 1..Len(recs) |-> recs[i].numeric[field]])

\* the calls the fcr KPIs take as connected: the inbound records read that
\* are not abandoned and the connect-rate records read that are connected
ConnectedCallsRead ==
    CountOf(last.reads["inbound"], LAMBDA r : ~abandonedRecord(r))
        + CountOf(last.reads["outbound_connectrate"], connectedRecord)

\* C12: fcrPercentage is totalCases / (connected inbound + connected
\* outbound) * 100, totalCases being the sum of the case counts of the fcr
\* records read, connected inbound the number of inbound records read that
\* are not abandoned and connected outbound the number of connect-rate
\* records read with isConnected true
C12_FcrPercentageFormula ==
    KPIsShown("fcr") =>
        /\ last.kpis[1].totalCases =
               Frac(TotalOf(last.reads["fcr"], "Count_numeric"), 100)
        /\ ConnectedCallsRead > 0 =>
               last.kpis[1].fcrPercentage =
                   Frac(TotalOf(last.reads["fcr"], "Count_numeric") * 100,
                        ConnectedCallsRead * 100)

\* the fcr KPIs were computed from several cases, with an abandoned inbound
\* record and an unconnected connect-rate record left out of the
\* denominator and a record of each kind in it
C12_Witness ==
    /\ KPIsShown("fcr")
    /\ Len(last.reads["fcr"]) > 1
    /\ \E i \in 1..Len(last.reads["inbound"]) :
           abandonedRecord(last.reads["inbound"][i])
    /\ \E i \in 1..Len(last.reads["inbound"]) :
           ~abandonedRecord(last.reads["inbound"][i])
    /\ \E i \in 1..Len(last.reads["outbound_connectrate"]) :
           connectedRecord(last.reads["outbound_connectrate"][i])
    /\ \E i \in 1..Len(last.reads["outbound_connectrate"]) :
           ~connectedRecord(last.reads["outbound_connectrate"][i])
    /\ last.kpis[1].fcrPercentage.n > 0

\* the record sets the aggregate outbound source may hold
OutboundAlternatives ==
    {Processed["outbound"][doc] : doc \in SubDocuments("outbound")}

\* C13: connectRate is the number of connect-rate records read with
\* isConnected true over the number of connect-rate records read, times
\* 100, and it is the same whatever the aggregate outbound records hold
C13_ConnectRateFromConnectSource ==
    KPIsShown("outbound") =>
        LET connect == last.reads["outbound_connectrate"] IN
        /\ Len(connect) > 0 =>
               last.kpis[1].connectRate =
                   Frac(CountOf(connect, connectedRecord) * 100, Len(connect))
        /\ \A alt \in OutboundAlternatives :
               outboundKPIs(alt, connect).connectRate = last.kpis[1].connectRate

\* the outbound KPIs were computed from connect-rate records of which some
\* are connected and some are not, beside aggregate records whose answered
\* calls over total calls is another ratio
C13_Witness ==
    /\ KPIsShown("outbound")
    /\ \E i \in 1..Len(last.reads["outbound_connectrate"]) :
           connectedRecord(last.reads["outbound_connectrate"][i])
    /\ \E i \in 1..Len(last.reads["outbound_connectrate"]) :
           ~connectedRecord(last.reads["outbound_connectrate"][i])
    /\ TotalOf(last.reads["outbound"], "TotalCalls_numeric") > 0
    /\ last.kpis[1].connectRate #
           Frac(TotalOf(last.reads["outbound"], "AnsweredCalls_numeric") * 100,
                TotalOf(last.reads["outbound"], "TotalCalls_numeric"))

\* the values of the field, in hundredths, that avg takes into the mean
\* over recs: those that are not negative
MeanValues(recs, field) ==
    SelectSeq([i \in 1..Len(recs) |-> cleanNumberOfProp(recs[i], field)],
              LAMBDA n : n >= 0)

\* C14: every KPI is a finite number, and a ratio whose denominator is zero
\* is 0: abandonRate without records, connectRate without connect-rate
\* records, avgTalkTime without outbound calls, avgHandleTime and
\* avgWaitTime without a value to average, fcrPercentage without connected
\* calls (the stores of the other sources being empty or missing included)
C14_ZeroDenominatorYieldsZero ==
    (last.op = "renderPage" /\ last.kpis # <<>>) =>
        LET k == last.kpis[1] IN
        /\ \A name \in DOMAIN k : k[name].kind = "number"
        /\ last.key = "inbound" =>
              /\ Len(last.reads["inbound"]) = 0 => k.abandonRate = Zero
              /\ (/\ MeanValues(last.reads["inbound"], "duration_numeric") = <<>>
                  /\ MeanValues(last.reads["inbound"], "Talk Time") = <<>>)
                     => k.avgHandleTime = Zero
              /\ (/\ MeanValues(last.reads["inbound"], "waitTime_numeric") = <<>>
                  /\ MeanValues(last.reads["inbound"], "Wait Time") = <<>>)
                     => k.avgWaitTime = Zero
        /\ last.key = "outbound" =>
              /\ Len(last.reads["outbound_connectrate"]) = 0
                     => k.connectRate = Zero
              /\ k.totalCalls = Zero => k.avgTalkTime = Zero
        /\ last.key = "fcr" =>
              (ConnectedCallsRead = 0 => k.fcrPercentage = Zero)

\* the fcr KPIs were computed for a positive number of cases while the
\* inbound and the connect-rate stores are missing
C14_Witness ==
    /\ KPIsShown("fcr")
    /\ DOMAIN data = {"fcr"}
    /\ last.kpis[1].totalCases.n > 0
    /\ ConnectedCallsRead = 0
    /\ last.kpis[1].fcrPercentage = Zero

\* the values, in hundredths, of the column in the records of recs that
\* hold one, negative values left out
PresentValues(recs, column) ==
    SelectSeq([i \in 1..Len(SelectSeq(recs, LAMBDA r : ~isBlank(Prop(r, column))))
                  |-> cleanNumber(Prop(SelectSeq(recs,
                          LAMBDA r : ~isBlank(Prop(r, column)))[i], column))],
              LAMBDA n : n >= 0)

\* the arithmetic mean of values held in hundredths, 0 for none
MeanOf(values) ==
    IF values = <<>> THEN Zero ELSE Frac(Sum(values), Len(values) * 100)

\* C15: avgHandleTime and avgWaitTime are the means of the talk time and of
\* the wait time over the inbound records read in which the value is
\* present and not negative; a record without the value is not counted
C15_MeansLeaveOutMissingValues ==
    KPIsShown("inbound") =>
        /\ last.kpis[1].avgHandleTime =
               MeanOf(PresentValues(last.reads["inbound"], "Talk Time"))
        /\ last.kpis[1].avgWaitTime =
               MeanOf(PresentValues(last.reads["inbound"], "Wait Time"))

\* the status of the inbound record r, lowercased, contains a keyword of
\* the abandoned patterns
StatusAbandoned(r) ==
    LET f == findBestMatch(ObjectKeys(r.raw), fieldMappings("inbound", "status"))
    IN  /\ f # <<>>
        /\ \E i \in 1..Len(abandonedPatterns) :
               Includes(ToLowerCase(Field(r.raw, f[1])[1]), abandonedPatterns[i])

\* the inbound store holds the 10 rows of scenario A and all were read
ScenarioARead ==
    /\ "inbound" \in DOMAIN data
    /\ data["inbound"] = processData(ScenarioA, "inbound")
    /\ last.reads["inbound"] = data["inbound"]

\* C16: on the inbound page totalCalls is the number of inbound records
\* read and abandonRate the number of them whose status contains an
\* abandoned keyword, whatever its case, over totalCalls, times 100; the 10
\* rows of scenario A, 2 of them "Abandoned", give 10 and 20
C16_InboundTotalsAndAbandonRate ==
    KPIsShown("inbound") =>
        /\ last.kpis[1].totalCalls = Frac(Len(last.reads["inbound"]), 1)
        /\ last.kpis[1].abandonRate =
               Frac(CountOf(last.reads["inbound"], StatusAbandoned) * 100,
                    Len(last.reads["inbound"]))
        /\ ScenarioARead =>
               /\ last.kpis[1].totalCalls = Frac(10, 1)
               /\ last.kpis[1].abandonRate = Frac(20, 1)

\* the inbound page was rendered from the 10 stored rows of scenario A, of
\* which exactly 2 have the status "Abandoned"
C16_Witness ==
    /\ KPIsShown("inbound")
    /\ ScenarioARead
    /\ Len(data["inbound"]) = 10
    /\ CountOf(data["inbound"],
               LAMBDA r : Prop(r, "Disposition") = <<"Abandoned">>) = 2
    /\ last.kpis[1].abandonRate = Frac(20, 1)

(***************************************************************************)
(* Properties of the rows                                                  *)
(***************************************************************************)
\* durations as the connect-rate export writes them: MM:SS and HH:MM:SS
DurationTexts ==
    {"02:31", "02:30", "2:29", "00:02:31", "00:02:30", "01:00:00", "00:45",
     "10:00", "0:00"}

\* the seconds of a duration written MM:SS or HH:MM:SS
ClockSeconds(text) ==
    LET parts == Split(text) IN
    IF Len(parts) = 3
    THEN ToInt(parts[1]) * 3600 + ToInt(parts[2]) * 60 + ToInt(parts[3])
    ELSE ToInt(parts[1]) * 60 + ToInt(parts[2])

\* the record processRow makes of an outbound connect-rate row that holds
\* the duration text
ConnectRecord(text) ==
    processRow(ConnectRow("k", "05/01/2024 11:00", "Outbound", text, "Ann"),
               "outbound_connectrate")

\* C17: a connect-rate row of outbound direction is connected exactly when
\* its duration in seconds is more than 150, for the stored records and
\* for every duration text; "02:31" is connected and "02:30" is not
C17_ConnectedAboveThreshold ==
    /\ \A i \in 1..Len(StoreOf("outbound_connectrate")) :
          LET r == StoreOf("outbound_connectrate")[i] IN
          r.flags["isOutbound"] =>
              (connectedRecord(r) <=> ClockSeconds(Prop(r, "Duration")[1]) > 150)
    /\ \A text \in DurationTexts :
          /\ connectedRecord(ConnectRecord(text)) <=> ClockSeconds(text) > 150
          /\ isConnectedCall(text) <=> ClockSeconds(text) > 150
    /\ connectedRecord(ConnectRecord("02:31"))
    /\ ~connectedRecord(ConnectRecord("02:30"))

\* the connect-rate store holds an outbound record of duration "02:31"
\* that is connected and one of duration "02:30" that is not, and the page
\* that counts them was rendered
C17_Witness ==
    /\ KPIsShown("outbound")
    /\ \E i \in 1..Len(StoreOf("outbound_connectrate")) :
          LET r == StoreOf("outbound_connectrate")[i] IN
          r.flags["isOutbound"] /\ Prop(r, "Duration") = <<"02:31">>
              /\ connectedRecord(r)
    /\ \E i \in 1..Len(StoreOf("outbound_connectrate")) :
          LET r == StoreOf("outbound_connectrate")[i] IN
          r.flags["isOutbound"] /\ Prop(r, "Duration") = <<"02:30">>
              /\ ~connectedRecord(r)

\* C18: no fcr record whose month is outside 1..12 is ever stored
C18_InvalidMonthNeverStored ==
    \A i \in 1..Len(StoreOf("fcr")) :
        /\ cleanNumber(Prop(StoreOf("fcr")[i], "Month")) >= 1 * 100
        /\ cleanNumber(Prop(StoreOf("fcr")[i], "Month")) <= 12 * 100

\* the date column of the record r holds the text "Total"
DateIsTotal(r) == Prop(r, "Date") = <<"Total">>

\* C19: no record whose date field is the text "Total" is stored for fcr
\* nor for outbound, and the validator rejects such a row of either source
\* whatever its other fields hold
C19_TotalRowsNeverStored ==
    /\ \A key \in {"fcr", "outbound"} :
          \A i \in 1..Len(StoreOf(key)) : ~DateIsTotal(StoreOf(key)[i])
    /\ \A y \in {"2024", "Total"}, m \in {"1", ""}, c \in {"9", "0"} :
          processData(<<FcrRow(y, m, "Total", c)>>, "fcr") = <<>>

\* date texts of the form D/M/Y and D-M-Y with the day, month and year
\* that the rule of C20 gives them: a first component above 12 is the day,
\* else a second component above 12 is the day, else the first is the day
DateCases ==
    { [text |-> "31/01/2024", day |-> 31, month |-> 1,  year |-> 2024],
      [text |-> "21/01/2024", day |-> 21, month |-> 1,  year |-> 2024],
      [text |-> "13-2-24",    day |-> 13, month |-> 2,  year |-> 2024],
      [text |-> "05/01/2024", day |-> 5,  month |-> 1,  year |-> 2024],
      [text |-> "12-12-2023", day |-> 12, month |-> 12, year |-> 2023],
      [text |-> "01/31/2024", day |-> 31, month |-> 1,  year |-> 2024],
      [text |-> "2-13-2024",  day |-> 13, month |-> 2,  year |-> 2024] }

\* the local midnight of the day the rule of C20 gives the case c
CaseDate(c) == NewDate(c.year, c.month - 1, c.day, 0, 0, 0)

\* C20: parseDate reads a D/M/Y or D-M-Y text by the rule of DateCases, in
\* the stored outbound records and for every case; "31/01/2024" is
\* 31 January 2024
C20_DayMonthOrder ==
    /\ \A i \in 1..Len(StoreOf("outbound")) :
          \A c \in DateCases :
              Prop(StoreOf("outbound")[i], "Date") = <<c.text>> =>
                  StoreOf("outbound")[i].date_parsed = <<CaseDate(c)>>
    /\ \A c \in DateCases : parseDate(<<c.text>>) = <<CaseDate(c)>>
    /\ parseDate(<<"31/01/2024">>) = <<NewDate(2024, 0, 31, 0, 0, 0)>>

(***************************************************************************)
(* Properties of the header resolution                                     *)
(***************************************************************************)
\* the candidate at position j has the normalized form of some header
CandidateMatches(headers, candidates, j) ==
    \E i \in 1..Len(headers) :
        normalizeHeader(headers[i]) = normalizeHeader(candidates[j])

\* C21: findBestMatch returns, in its original spelling, a header whose
\* normalized form is that of the first candidate (in the given order) that
\* matches any header, also when a later candidate matches a header that
\* comes earlier in the header list; it returns null when no candidate
\* matches a header
C21_FirstMatchingCandidateWins ==
    (last.op = "findBestMatch" /\ last.done) =>
        LET h == last.headers
            c == last.candidates
            J == {j \in 1..Len(c) : CandidateMatches(h, c, j)}
        IN  IF J = {} THEN last.hit = <<>>
            ELSE LET first == CHOOSE j \in J : \A k \in J : j <= k
                 IN  /\ last.hit # <<>>
                     /\ \E i \in 1..Len(h) : h[i] = last.hit[1]
                     /\ normalizeHeader(last.hit[1]) = normalizeHeader(c[first])

\* a call has returned the header of the first candidate although the
\* second candidate matches a header that comes earlier in the list
C21_Witness ==
    /\ last.op = "findBestMatch" /\ last.done
    /\ last.headers = <<"wait_time", "Call ID", "Queue Time">>
    /\ last.candidates = <<"queue_time", "wait time">>
    /\ last.hit = <<"Queue Time">>


(***************************************************************************)
(* Properties of the row processing of part_001                            *)
(***************************************************************************)
\* normalizing the row throws
NormalizeThrows(row, key) == processRowP1(row, key).kind = "throws"

\* the row normalizes without throwing and passes validation
Accepted(row, key) ==
    /\ ~NormalizeThrows(row, key)
    /\ isValidRowP1(processRowP1(row, key), key)

\* the position in rows of the k-th accepted row
AcceptedAt(rows, key, k) ==
    CHOOSE i \in 1..Len(rows) :
        /\ Accepted(rows[i], key)
        /\ Cardinality({j \in 1..i : Accepted(rows[j], key)}) = k

\* C22: a row whose normalization or validation throws is skipped and
\* processData does not throw: what it returns holds exactly the records of
\* the rows that normalize without throwing and pass validation, in the
\* order of the rows
C22_ThrowingRowSkipped ==
    (last.op = "processData" /\ last.done) =>
        LET rows == last.rows
            n    == Cardinality({i \in 1..Len(rows) : Accepted(rows[i], last.key)})
        IN  /\ ~last.threw
            /\ Len(last.out) = n
            /\ \A k \in 1..n :
                  last.out[k] =
                      processRowP1(rows[AcceptedAt(rows, last.key, k)],
                                   last.key).rec[1]

\* a document whose second row throws has been processed, and the rows
\* before and after it are stored
C22_Witness ==
    /\ last.op = "processData" /\ last.done /\ last.key = "fcr"
    /\ Len(last.rows) = 3
    /\ Accepted(last.rows[1], "fcr")
    /\ NormalizeThrows(last.rows[2], "fcr")
    /\ Accepted(last.rows[3], "fcr")
    /\ Len(last.out) = 2


(***************************************************************************)
(* Properties of the loader under interleaved loads                        *)
(***************************************************************************)
\* what one load of the source can leave in its store: the empty array of
\* a load that failed, or all the records that processData returned for
\* the document the load fetched
WholeLoads(key) == {<<>>} \cup {Processed[key][f] : f \in Files(key)}

C24_SecondLoadAllReturnsAtOnce ==
    [][/\ (isLoading /\ last'.op = "refreshDataSkipped") =>
              /\ isLoading' /\ results' = results /\ loadOwner' = loadOwner
              /\ data' = <<>> /\ metadata' = <<>>
       /\ (loadOwner' # "none" /\ loadOwner' # loadOwner) => ~isLoading]_vars

\* refreshData has called loadAll while the load of init was in progress
\* with some of its fetches settled and others pending
C24_Witness ==
    /\ last.op = "refreshDataSkipped"
    /\ isLoading /\ loadOwner = "init"
    /\ \E key \in SourceSet : results[key] # <<>>
    /\ \E key \in SourceSet : results[key] = <<>>


\* C25: if every fetch settles, a loadAll that has started returns to its
\* caller without throwing, with isLoading false and an entry in data for
\* every configured source, whichever sources fail
C25_LoadAllCompletes ==
    isLoading ~> (LoadAllReturned /\ ~isLoading /\ DOMAIN data = SourceSet)

\* a loadAll has returned with an entry for every source although the
\* loads of two sources failed
C25_Witness ==
    /\ LoadAllReturned /\ ~isLoading /\ DOMAIN data = SourceSet
    /\ results["inbound"][1].error = <<"404 Not Found">>
    /\ results["fcr"][1].error = <<"Empty data file">>
    /\ data["outbound"] # <<>>

\* the page on display is the current one, drawn from the stores as they are
PageCurrent == shown = Charts(currentPage, data)

\* C26: every load sequence that completes is followed, with no user action,
\* by a render of the page current at that moment from the stores just
\* loaded; and once init has loaded, no load is pending and no navigation
\* waits for its frame, the page on display is the current page drawn from
\* the stores as they are, never cleared and never from an earlier load
C26_CompletedLoadRendersCurrentPage ==
    /\ [](initState = "done" /\ ~isLoading /\ ~navigating => PageCurrent)
    /\ (isLoading ~> (LoadAllReturned /\ PageCurrent))

\* the user went to another page whose animation frame has not come when
\* the load of a refreshData completes: that page is drawn from the stores
\* just loaded
C26_Witness ==
    /\ last.op = "refreshDataDone"
    /\ currentPage = "fcr"
    /\ navigating
    /\ shown = Charts("fcr", data)
    /\ DOMAIN data = SourceSet

\* the call was for a source, with a start and an end date that parse and
\* with no stored record of the source in their range
NoStoredRecordInRange ==
    /\ JustReturned
    /\ query[1].key \in SourceSet
    /\ Truthy(query[1].filters.startDate)
    /\ Truthy(query[1].filters.endDate)
    /\ parseDate(query[1].filters.startDate) # <<>>
    /\ parseDate(query[1].filters.endDate) # <<>>
    /\ \A j \in 1..Len(StoreBefore) :
           ~InFilterRange(StoreBefore[j], query[1].filters)

\* the call returned what it returns without the dates: the whole store, in
\* order, when no agent or status filter is set
ReturnedUnfiltered ==
    /\ returned[1].kind = "array"
    /\ returned[1].value =
           getData(query[1].key, WithoutDates(query[1].filters)).value
    /\ (~Truthy(query[1].filters.agent) /\ ~Truthy(query[1].filters.status))
           => returned[1].value = StoreBefore

\* C27 as stated: with a start and an end date that match no stored record,
\* getData returns the unfiltered store for a source other than inbound and
\* the empty sequence for inbound
C27_NoMatchFallsBackExceptInbound ==
    NoStoredRecordInRange =>
        IF query[1].key = "inbound"
        THEN returned[1].kind = "array" /\ returned[1].value = <<>>
        ELSE ReturnedUnfiltered

\* C27: with a start and an end date that match no stored record, getData
\* returns the unfiltered store for a source other than inbound; for inbound
\* it returns the empty sequence if some stored record holds a parsed date,
\* and the unfiltered store if none does
C27_NoMatchFallsBackExceptDatedInbound ==
    NoStoredRecordInRange =>
        IF query[1].key = "inbound" /\ hasAnyDate(StoreBefore)
        THEN returned[1].kind = "array" /\ returned[1].value = <<>>
        ELSE ReturnedUnfiltered

\* both cases: a range that holds no record of a dated, non-empty outbound
\* store returned the whole store
C27_Witness ==
    /\ NoStoredRecordInRange
    /\ query[1].key = "outbound"
    /\ hasAnyDate(StoreBefore)
    /\ ~Truthy(query[1].filters.agent)
    /\ ~Truthy(query[1].filters.status)
    /\ returned[1].value = StoreBefore

\* a range that holds no record of a dated, non-empty inbound store returned
\* the empty sequence
C27_WitnessInbound ==
    /\ NoStoredRecordInRange
    /\ query[1].key = "inbound"
    /\ hasAnyDate(StoreBefore)
    /\ returned[1].value = <<>>

\* C28 as stated: whenever the active filter holds both a start and an end
\* date, the pair passes validateDateRange, whether applyFilters,
\* resetFilters or the range restored by init() (the default one or the
\* persisted one) set it
C28_ActiveRangeValid ==
    (/\ currentFilters # <<>>
     /\ Truthy(currentFilters.startDate)
     /\ Truthy(currentFilters.endDate)) => ValidRange(currentFilters)

\* the record's direction column, Initial Direction or else Direction,
\* reads outbound, whatever its case and the blanks around it
IndicatesOutbound(rec) ==
    \E dir \in {directionOf(rec.raw, Field(rec.raw, "Initial Direction"))} :
        Truthy(dir) /\ StartsWith(ToLowerCase(Trim(dir[1])), "out")

\* C29 as stated: every record that processData keeps for
\* outbound_connectrate has a direction that indicates outbound and a
\* non-blank call identifier
C29_ConnectRateStoredOutboundWithId ==
    (last.op = "processData" /\ last.done
        /\ last.key = "outbound_connectrate") =>
        \A i \in 1..Len(last.out) :
            /\ IndicatesOutbound(last.out[i])
            /\ ~isBlank(Prop(last.out[i], "Call ID"))

\* C29 on the loader version of part_001, whose processRow drops the rows
\* of another direction and whose isValidRow asks for the Call ID: there
\* the direction of every record kept is the word outbound, in any case,
\* and the record carries a call identifier
C29_OutboundWithIdInPart001 ==
    (last.op = "processData" /\ last.done
        /\ last.key = "outbound_connectrate") =>
        \A i \in 1..Len(last.out) :
            /\ \E dir \in {directionOf(last.out[i].raw,
                                        Field(last.out[i].raw,
                                              "Initial Direction"))} :
                   Truthy(dir) /\ ToLowerCase(dir[1]) = "outbound"
            /\ ~isBlank(Prop(last.out[i], "Call ID"))

\* the Chart instances that the registry holds
Registered == {<<c, charts[c]>> : c \in DOMAIN charts}

\* C30: whatever renders, navigations and refreshes have run, no container
\* has two live Chart instances, and every Chart instance created and not
\* destroyed is the one that the registry holds under its container id
C30_LiveChartsAreRegistered ==
    /\ \A x \in liveCharts : \A y \in liveCharts : x[1] = y[1] => x = y
    /\ liveCharts = Registered

\* a render has just created a chart in a container that held a chart,
\* another createChart call of the same render failed, and charts of two
\* pages are registered
C30_Witness ==
    /\ last.op = "renderMeeting"
    /\ last.replaced
    /\ last.failed
    /\ charts # <<>>
    /\ \E c \in DOMAIN charts :
          \A i \in 1..Len(PageCharts(currentPage)) :
              c # PageCharts(currentPage)[i]

====
